---- MODULE Spec2Model ----
(***************************************************************************)
(* HumanID (github.com/Reboxed/HumanID): a codec between 64-bit unsigned   *)
(* integers and hyphen-joined word sequences.                              *)
(*                                                                         *)
(* The Go code computes on uint64, uint32 and int.  TLC's integers are     *)
(* 32-bit, so a machine word is held here as a natural number written in   *)
(* base 2^16, least significant limb first, without leading zero limbs     *)
(* (zero is the empty sequence).  Two numbers are equal exactly when their *)
(* limb sequences are equal.  Unbounded arithmetic (Big...) is the         *)
(* mathematics; the Go operators are that arithmetic reduced mod 2^64 or   *)
(* mod 2^32, as the hardware reduces it.                                   *)
(***************************************************************************)
EXTENDS Integers, Sequences, FiniteSets, TLC

\* ------------------------------------------------------------------------
\* Natural numbers in base 2^16
\* ------------------------------------------------------------------------
\* TLC computes an operator's arguments and LET definitions only when they are first
\* used.  After(x, e) is e, with x computed first: a loop written with it nests one
\* evaluation per iteration and not one loop body per iteration.
After(x, e) == IF x = x THEN e ELSE e

LimbBits == 4 * 4
LimbBase == 2^LimbBits
HalfLimb == 2^8

LimbAt(a, i) == IF i <= Len(a) THEN a[i] ELSE 0

RECURSIVE Norm(_)
Norm(a) == IF a = << >> THEN a
           ELSE IF a[Len(a)] = 0 THEN Norm(SubSeq(a, 1, Len(a) - 1)) ELSE a

\* A TLC integer n >= 0 as a number.
RECURSIVE Big(_)
Big(n) == IF n = 0 THEN << >> ELSE <<n % LimbBase>> \o Big(n \div LimbBase)

\* A number below 2^31 as a TLC integer.
Small(a) == LimbAt(a, 1) + LimbBase * LimbAt(a, 2)
FitsSmall(a) == Len(a) <= 1 \/ (Len(a) = 2 /\ a[2] < 2^15)

RECURSIVE AddFrom(_, _, _, _)
AddFrom(a, b, i, carry) ==
    IF i > Len(a) /\ i > Len(b)
    THEN IF carry = 0 THEN << >> ELSE <<carry>>
    ELSE LET s == LimbAt(a, i) + LimbAt(b, i) + carry
         IN  <<s % LimbBase>> \o AddFrom(a, b, i + 1, s \div LimbBase)
BigAdd(a, b) == AddFrom(a, b, 1, 0)

BigLess(a, b) ==
    IF Len(a) # Len(b) THEN Len(a) < Len(b)
    ELSE \E i \in 1..Len(a) :
            /\ a[i] < b[i]
            /\ \A j \in (i + 1)..Len(a) : a[j] = b[j]
BigLeq(a, b) == ~BigLess(b, a)

\* a - b for a >= b.
RECURSIVE SubFrom(_, _, _, _)
SubFrom(a, b, i, borrow) ==
    IF i > Len(a) THEN << >>
    ELSE LET s == a[i] - LimbAt(b, i) - borrow
         IN  IF s < 0 THEN <<s + LimbBase>> \o SubFrom(a, b, i + 1, 1)
                      ELSE <<s>> \o SubFrom(a, b, i + 1, 0)
BigSub(a, b) == Norm(SubFrom(a, b, 1, 0))

\* a * m for a TLC integer 0 <= m <= 2^15 (every limb product stays below 2^31).
RECURSIVE MulSmallFrom(_, _, _, _)
MulSmallFrom(a, m, i, carry) ==
    IF i > Len(a)
    THEN IF carry = 0 THEN << >> ELSE <<carry>>
    ELSE LET p == a[i] * m + carry
         IN  <<p % LimbBase>> \o MulSmallFrom(a, m, i + 1, p \div LimbBase)
BigMulSmall(a, m) == IF m = 0 THEN << >> ELSE MulSmallFrom(a, m, 1, 0)

ShiftLimbs(a, n) == IF a = << >> THEN a ELSE [i \in 1..n |-> 0] \o a

\* a * x for one limb x.
MulLimb(a, x) ==
    IF x <= 2^15 THEN BigMulSmall(a, x)
    ELSE BigAdd(BigMulSmall(BigMulSmall(a, x \div HalfLimb), HalfLimb),
                BigMulSmall(a, x % HalfLimb))

RECURSIVE MulFrom(_, _, _)
MulFrom(a, b, j) ==
    IF j > Len(b) THEN << >>
    ELSE BigAdd(MulLimb(a, b[j]), ShiftLimbs(MulFrom(a, b, j + 1), 1))
BigMul(a, b) == MulFrom(a, b, 1)

Square(a) == BigMul(a, a)
RECURSIVE BigPow(_, _)
BigPow(a, n) ==
    LET raised(root) == After(root, BigMul(Square(root), IF n % 2 = 0 THEN <<1>> ELSE a))
    IN  IF n = 0 THEN <<1>> ELSE raised(BigPow(a, n \div 2))

\* Division of a by a TLC integer 1 <= m <= 2^15: <<quotient, remainder>>,
\* the remainder as a TLC integer.
RECURSIVE ShortDivFrom(_, _, _, _)
ShortDivFrom(a, m, i, r) ==
    IF i = 0 THEN <<<< >>, r>>
    ELSE LET cur  == r * LimbBase + a[i]
             rest == ShortDivFrom(a, m, i - 1, cur % m)
         IN  <<rest[1] \o <<cur \div m>>, rest[2]>>
ShortDivMod(a, m) ==
    LET qr == ShortDivFrom(a, m, Len(a), 0) IN <<Norm(qr[1]), qr[2]>>

\* Schoolbook division for any divisor d # 0, one limb of the dividend at a time;
\* each quotient limb is found four bits at a time.  <<quotient limbs, remainder>>.
RECURSIVE QuotLimb(_, _, _, _)
QuotLimb(cur, d, b, q) ==
    LET largest(fits) == CHOOSE n \in fits : \A m \in fits : m <= n
        found(digit)  == After(digit, QuotLimb(cur, d, b - 4, q + digit * 2^b))
    IN  IF b < 0 THEN q
        ELSE found(largest({n \in 0..15 : BigLeq(MulLimb(d, q + n * 2^b), cur)}))

RECURSIVE LongDivFrom(_, _, _, _)
LongDivFrom(a, d, i, r) ==
    LET put(rest, ql)  == <<rest[1] \o <<ql>>, rest[2]>>
        below(cur, ql) == put(LongDivFrom(a, d, i - 1, BigSub(cur, MulLimb(d, ql))), ql)
        limb(cur)      == below(cur, IF BigLess(cur, d) THEN 0
                                     ELSE QuotLimb(cur, d, LimbBits - 4, 0))
    IN  IF i = 0 THEN <<<< >>, r>> ELSE limb(Norm(<<a[i]>> \o r))

BigDivMod(a, d) ==
    LET short(qr) == <<qr[1], Big(qr[2])>>
        long(qr)  == <<Norm(qr[1]), qr[2]>>
    IN  IF BigLess(a, d) THEN <<<< >>, a>>
        ELSE IF Len(d) = 1 /\ d[1] <= 2^15 THEN short(ShortDivMod(a, d[1]))
        ELSE long(LongDivFrom(a, d, Len(a), << >>))
BigDiv(a, d) == BigDivMod(a, d)[1]
BigMod(a, d) == BigDivMod(a, d)[2]

\* a mod 2^(16 n): the low n limbs.
Wrap(a, n) == IF Len(a) <= n THEN a ELSE Norm(SubSeq(a, 1, n))

\* Bitwise operators, limb by limb, a nibble at a time.
AndNib == [x \in 0..15 |-> [y \in 0..15 |->
             ((x % 2) * (y % 2))
           + 2 * (((x \div 2) % 2) * ((y \div 2) % 2))
           + 4 * (((x \div 4) % 2) * ((y \div 4) % 2))
           + 8 * ((x \div 8) * (y \div 8))]]
AndByte == [x \in 0..255 |-> [y \in 0..255 |->
              AndNib[x % 16][y % 16] + 16 * AndNib[x \div 16][y \div 16]]]
AndWith(table, x, y) == table[x % 256][y % 256] + 256 * table[x \div 256][y \div 256]
AndInt(x, y) == AndWith(AndByte, x, y)
XorInt(x, y) == x + y - 2 * AndInt(x, y)
BigAnd(a, b) ==
    LET n == IF Len(a) < Len(b) THEN Len(a) ELSE Len(b)
    IN  Norm([i \in 1..n |-> AndInt(a[i], b[i])])
BigOr(a, b) ==
    LET n == IF Len(a) < Len(b) THEN Len(b) ELSE Len(a)
    IN  [i \in 1..n |-> LimbAt(a, i) + LimbAt(b, i) - AndInt(LimbAt(a, i), LimbAt(b, i))]
BigXor(a, b) ==
    LET n == IF Len(a) < Len(b) THEN Len(b) ELSE Len(a)
    IN  Norm([i \in 1..n |->
                LimbAt(a, i) + LimbAt(b, i) - 2 * AndInt(LimbAt(a, i), LimbAt(b, i))])

\* a * 2^n and a div 2^n.
BigShl(a, n) == ShiftLimbs(BigMulSmall(a, 2^(n % LimbBits)), n \div LimbBits)
BigShr(a, n) ==
    IF Len(a) <= n \div LimbBits THEN << >>
    ELSE ShortDivMod(SubSeq(a, (n \div LimbBits) + 1, Len(a)), 2^(n % LimbBits))[1]

\* Decimal numerals to numbers (used to write the model's large constants).
RECURSIVE Num(_)
Num(digits) ==
    IF digits = << >> THEN << >>
    ELSE BigAdd(BigMulSmall(Num(SubSeq(digits, 1, Len(digits) - 1)), 10),
                Big(digits[Len(digits)]))

\* ------------------------------------------------------------------------
\* Go's fixed-width integers
\* ------------------------------------------------------------------------
MaxUint64 == <<LimbBase - 1, LimbBase - 1, LimbBase - 1, LimbBase - 1>>   \* 1<<64 - 1
MaxInt64  == <<LimbBase - 1, LimbBase - 1, LimbBase - 1, 2^15 - 1>>       \* 1<<63 - 1

U64(a) == Wrap(a, 4)
U32(a) == Wrap(a, 2)
Add64(a, b) == U64(BigAdd(a, b))
Mul64(a, b) == U64(BigMul(a, b))
Sub64(a, b) == IF BigLess(a, b) THEN BigSub(BigAdd(a, <<0, 0, 0, 0, 1>>), b) ELSE BigSub(a, b)
Shl64(a, n) == U64(BigShl(a, n))

\* int(x) > 0 for a uint64 x: the conversion reinterprets bit 63 as the sign.
IntIsPositive(x) == x # << >> /\ BigLeq(x, MaxInt64)

\* ------------------------------------------------------------------------
\* Strings: a Go string is the sequence of its characters.  A character up to
\* U+00FF is the string of that character; a character above U+00FF is the string
\* that names its code point, as "U+212A" (the Kelvin sign).
\* ------------------------------------------------------------------------
\* The characters that unicode.ToLower changes, and what it changes them to
\* (Unicode 14.0.0): the 26 letters of ASCII first, then the upper-case letters
\* U+00C0..U+00DE (without the sign U+00D7), then the characters above U+00FF
\* in the order of their code points.  UpperCase[i] becomes LowerCase[i].
LowerCase == <<"a", "b", "c", "d", "e", "f", "g", "h",
               "i", "j", "k", "l", "m", "n", "o", "p",
               "q", "r", "s", "t", "u", "v", "w", "x",
               "y", "z", "à", "á", "â", "ã", "ä", "å",
               "æ", "ç", "è", "é", "ê", "ë", "ì", "í",
               "î", "ï", "ð", "ñ", "ò", "ó", "ô", "õ",
               "ö", "ø", "ù", "ú", "û", "ü", "ý", "þ",
               "U+0101", "U+0103", "U+0105", "U+0107", "U+0109", "U+010B", "U+010D", "U+010F",
               "U+0111", "U+0113", "U+0115", "U+0117", "U+0119", "U+011B", "U+011D", "U+011F",
               "U+0121", "U+0123", "U+0125", "U+0127", "U+0129", "U+012B", "U+012D", "U+012F",
               "i", "U+0133", "U+0135", "U+0137", "U+013A", "U+013C", "U+013E", "U+0140",
               "U+0142", "U+0144", "U+0146", "U+0148", "U+014B", "U+014D", "U+014F", "U+0151",
               "U+0153", "U+0155", "U+0157", "U+0159", "U+015B", "U+015D", "U+015F", "U+0161",
               "U+0163", "U+0165", "U+0167", "U+0169", "U+016B", "U+016D", "U+016F", "U+0171",
               "U+0173", "U+0175", "U+0177", "ÿ", "U+017A", "U+017C", "U+017E", "U+0253",
               "U+0183", "U+0185", "U+0254", "U+0188", "U+0256", "U+0257", "U+018C", "U+01DD",
               "U+0259", "U+025B", "U+0192", "U+0260", "U+0263", "U+0269", "U+0268", "U+0199",
               "U+026F", "U+0272", "U+0275", "U+01A1", "U+01A3", "U+01A5", "U+0280", "U+01A8",
               "U+0283", "U+01AD", "U+0288", "U+01B0", "U+028A", "U+028B", "U+01B4", "U+01B6",
               "U+0292", "U+01B9", "U+01BD", "U+01C6", "U+01C6", "U+01C9", "U+01C9", "U+01CC",
               "U+01CC", "U+01CE", "U+01D0", "U+01D2", "U+01D4", "U+01D6", "U+01D8", "U+01DA",
               "U+01DC", "U+01DF", "U+01E1", "U+01E3", "U+01E5", "U+01E7", "U+01E9", "U+01EB",
               "U+01ED", "U+01EF", "U+01F3", "U+01F3", "U+01F5", "U+0195", "U+01BF", "U+01F9",
               "U+01FB", "U+01FD", "U+01FF", "U+0201", "U+0203", "U+0205", "U+0207", "U+0209",
               "U+020B", "U+020D", "U+020F", "U+0211", "U+0213", "U+0215", "U+0217", "U+0219",
               "U+021B", "U+021D", "U+021F", "U+019E", "U+0223", "U+0225", "U+0227", "U+0229",
               "U+022B", "U+022D", "U+022F", "U+0231", "U+0233", "U+2C65", "U+023C", "U+019A",
               "U+2C66", "U+0242", "U+0180", "U+0289", "U+028C", "U+0247", "U+0249", "U+024B",
               "U+024D", "U+024F", "U+0371", "U+0373", "U+0377", "U+03F3", "U+03AC", "U+03AD",
               "U+03AE", "U+03AF", "U+03CC", "U+03CD", "U+03CE", "U+03B1", "U+03B2", "U+03B3",
               "U+03B4", "U+03B5", "U+03B6", "U+03B7", "U+03B8", "U+03B9", "U+03BA", "U+03BB",
               "U+03BC", "U+03BD", "U+03BE", "U+03BF", "U+03C0", "U+03C1", "U+03C3", "U+03C4",
               "U+03C5", "U+03C6", "U+03C7", "U+03C8", "U+03C9", "U+03CA", "U+03CB", "U+03D7",
               "U+03D9", "U+03DB", "U+03DD", "U+03DF", "U+03E1", "U+03E3", "U+03E5", "U+03E7",
               "U+03E9", "U+03EB", "U+03ED", "U+03EF", "U+03B8", "U+03F8", "U+03F2", "U+03FB",
               "U+037B", "U+037C", "U+037D", "U+0450", "U+0451", "U+0452", "U+0453", "U+0454",
               "U+0455", "U+0456", "U+0457", "U+0458", "U+0459", "U+045A", "U+045B", "U+045C",
               "U+045D", "U+045E", "U+045F", "U+0430", "U+0431", "U+0432", "U+0433", "U+0434",
               "U+0435", "U+0436", "U+0437", "U+0438", "U+0439", "U+043A", "U+043B", "U+043C",
               "U+043D", "U+043E", "U+043F", "U+0440", "U+0441", "U+0442", "U+0443", "U+0444",
               "U+0445", "U+0446", "U+0447", "U+0448", "U+0449", "U+044A", "U+044B", "U+044C",
               "U+044D", "U+044E", "U+044F", "U+0461", "U+0463", "U+0465", "U+0467", "U+0469",
               "U+046B", "U+046D", "U+046F", "U+0471", "U+0473", "U+0475", "U+0477", "U+0479",
               "U+047B", "U+047D", "U+047F", "U+0481", "U+048B", "U+048D", "U+048F", "U+0491",
               "U+0493", "U+0495", "U+0497", "U+0499", "U+049B", "U+049D", "U+049F", "U+04A1",
               "U+04A3", "U+04A5", "U+04A7", "U+04A9", "U+04AB", "U+04AD", "U+04AF", "U+04B1",
               "U+04B3", "U+04B5", "U+04B7", "U+04B9", "U+04BB", "U+04BD", "U+04BF", "U+04CF",
               "U+04C2", "U+04C4", "U+04C6", "U+04C8", "U+04CA", "U+04CC", "U+04CE", "U+04D1",
               "U+04D3", "U+04D5", "U+04D7", "U+04D9", "U+04DB", "U+04DD", "U+04DF", "U+04E1",
               "U+04E3", "U+04E5", "U+04E7", "U+04E9", "U+04EB", "U+04ED", "U+04EF", "U+04F1",
               "U+04F3", "U+04F5", "U+04F7", "U+04F9", "U+04FB", "U+04FD", "U+04FF", "U+0501",
               "U+0503", "U+0505", "U+0507", "U+0509", "U+050B", "U+050D", "U+050F", "U+0511",
               "U+0513", "U+0515", "U+0517", "U+0519", "U+051B", "U+051D", "U+051F", "U+0521",
               "U+0523", "U+0525", "U+0527", "U+0529", "U+052B", "U+052D", "U+052F", "U+0561",
               "U+0562", "U+0563", "U+0564", "U+0565", "U+0566", "U+0567", "U+0568", "U+0569",
               "U+056A", "U+056B", "U+056C", "U+056D", "U+056E", "U+056F", "U+0570", "U+0571",
               "U+0572", "U+0573", "U+0574", "U+0575", "U+0576", "U+0577", "U+0578", "U+0579",
               "U+057A", "U+057B", "U+057C", "U+057D", "U+057E", "U+057F", "U+0580", "U+0581",
               "U+0582", "U+0583", "U+0584", "U+0585", "U+0586", "U+2D00", "U+2D01", "U+2D02",
               "U+2D03", "U+2D04", "U+2D05", "U+2D06", "U+2D07", "U+2D08", "U+2D09", "U+2D0A",
               "U+2D0B", "U+2D0C", "U+2D0D", "U+2D0E", "U+2D0F", "U+2D10", "U+2D11", "U+2D12",
               "U+2D13", "U+2D14", "U+2D15", "U+2D16", "U+2D17", "U+2D18", "U+2D19", "U+2D1A",
               "U+2D1B", "U+2D1C", "U+2D1D", "U+2D1E", "U+2D1F", "U+2D20", "U+2D21", "U+2D22",
               "U+2D23", "U+2D24", "U+2D25", "U+2D27", "U+2D2D", "U+AB70", "U+AB71", "U+AB72",
               "U+AB73", "U+AB74", "U+AB75", "U+AB76", "U+AB77", "U+AB78", "U+AB79", "U+AB7A",
               "U+AB7B", "U+AB7C", "U+AB7D", "U+AB7E", "U+AB7F", "U+AB80", "U+AB81", "U+AB82",
               "U+AB83", "U+AB84", "U+AB85", "U+AB86", "U+AB87", "U+AB88", "U+AB89", "U+AB8A",
               "U+AB8B", "U+AB8C", "U+AB8D", "U+AB8E", "U+AB8F", "U+AB90", "U+AB91", "U+AB92",
               "U+AB93", "U+AB94", "U+AB95", "U+AB96", "U+AB97", "U+AB98", "U+AB99", "U+AB9A",
               "U+AB9B", "U+AB9C", "U+AB9D", "U+AB9E", "U+AB9F", "U+ABA0", "U+ABA1", "U+ABA2",
               "U+ABA3", "U+ABA4", "U+ABA5", "U+ABA6", "U+ABA7", "U+ABA8", "U+ABA9", "U+ABAA",
               "U+ABAB", "U+ABAC", "U+ABAD", "U+ABAE", "U+ABAF", "U+ABB0", "U+ABB1", "U+ABB2",
               "U+ABB3", "U+ABB4", "U+ABB5", "U+ABB6", "U+ABB7", "U+ABB8", "U+ABB9", "U+ABBA",
               "U+ABBB", "U+ABBC", "U+ABBD", "U+ABBE", "U+ABBF", "U+13F8", "U+13F9", "U+13FA",
               "U+13FB", "U+13FC", "U+13FD", "U+10D0", "U+10D1", "U+10D2", "U+10D3", "U+10D4",
               "U+10D5", "U+10D6", "U+10D7", "U+10D8", "U+10D9", "U+10DA", "U+10DB", "U+10DC",
               "U+10DD", "U+10DE", "U+10DF", "U+10E0", "U+10E1", "U+10E2", "U+10E3", "U+10E4",
               "U+10E5", "U+10E6", "U+10E7", "U+10E8", "U+10E9", "U+10EA", "U+10EB", "U+10EC",
               "U+10ED", "U+10EE", "U+10EF", "U+10F0", "U+10F1", "U+10F2", "U+10F3", "U+10F4",
               "U+10F5", "U+10F6", "U+10F7", "U+10F8", "U+10F9", "U+10FA", "U+10FD", "U+10FE",
               "U+10FF", "U+1E01", "U+1E03", "U+1E05", "U+1E07", "U+1E09", "U+1E0B", "U+1E0D",
               "U+1E0F", "U+1E11", "U+1E13", "U+1E15", "U+1E17", "U+1E19", "U+1E1B", "U+1E1D",
               "U+1E1F", "U+1E21", "U+1E23", "U+1E25", "U+1E27", "U+1E29", "U+1E2B", "U+1E2D",
               "U+1E2F", "U+1E31", "U+1E33", "U+1E35", "U+1E37", "U+1E39", "U+1E3B", "U+1E3D",
               "U+1E3F", "U+1E41", "U+1E43", "U+1E45", "U+1E47", "U+1E49", "U+1E4B", "U+1E4D",
               "U+1E4F", "U+1E51", "U+1E53", "U+1E55", "U+1E57", "U+1E59", "U+1E5B", "U+1E5D",
               "U+1E5F", "U+1E61", "U+1E63", "U+1E65", "U+1E67", "U+1E69", "U+1E6B", "U+1E6D",
               "U+1E6F", "U+1E71", "U+1E73", "U+1E75", "U+1E77", "U+1E79", "U+1E7B", "U+1E7D",
               "U+1E7F", "U+1E81", "U+1E83", "U+1E85", "U+1E87", "U+1E89", "U+1E8B", "U+1E8D",
               "U+1E8F", "U+1E91", "U+1E93", "U+1E95", "ß", "U+1EA1", "U+1EA3", "U+1EA5",
               "U+1EA7", "U+1EA9", "U+1EAB", "U+1EAD", "U+1EAF", "U+1EB1", "U+1EB3", "U+1EB5",
               "U+1EB7", "U+1EB9", "U+1EBB", "U+1EBD", "U+1EBF", "U+1EC1", "U+1EC3", "U+1EC5",
               "U+1EC7", "U+1EC9", "U+1ECB", "U+1ECD", "U+1ECF", "U+1ED1", "U+1ED3", "U+1ED5",
               "U+1ED7", "U+1ED9", "U+1EDB", "U+1EDD", "U+1EDF", "U+1EE1", "U+1EE3", "U+1EE5",
               "U+1EE7", "U+1EE9", "U+1EEB", "U+1EED", "U+1EEF", "U+1EF1", "U+1EF3", "U+1EF5",
               "U+1EF7", "U+1EF9", "U+1EFB", "U+1EFD", "U+1EFF", "U+1F00", "U+1F01", "U+1F02",
               "U+1F03", "U+1F04", "U+1F05", "U+1F06", "U+1F07", "U+1F10", "U+1F11", "U+1F12",
               "U+1F13", "U+1F14", "U+1F15", "U+1F20", "U+1F21", "U+1F22", "U+1F23", "U+1F24",
               "U+1F25", "U+1F26", "U+1F27", "U+1F30", "U+1F31", "U+1F32", "U+1F33", "U+1F34",
               "U+1F35", "U+1F36", "U+1F37", "U+1F40", "U+1F41", "U+1F42", "U+1F43", "U+1F44",
               "U+1F45", "U+1F51", "U+1F53", "U+1F55", "U+1F57", "U+1F60", "U+1F61", "U+1F62",
               "U+1F63", "U+1F64", "U+1F65", "U+1F66", "U+1F67", "U+1F80", "U+1F81", "U+1F82",
               "U+1F83", "U+1F84", "U+1F85", "U+1F86", "U+1F87", "U+1F90", "U+1F91", "U+1F92",
               "U+1F93", "U+1F94", "U+1F95", "U+1F96", "U+1F97", "U+1FA0", "U+1FA1", "U+1FA2",
               "U+1FA3", "U+1FA4", "U+1FA5", "U+1FA6", "U+1FA7", "U+1FB0", "U+1FB1", "U+1F70",
               "U+1F71", "U+1FB3", "U+1F72", "U+1F73", "U+1F74", "U+1F75", "U+1FC3", "U+1FD0",
               "U+1FD1", "U+1F76", "U+1F77", "U+1FE0", "U+1FE1", "U+1F7A", "U+1F7B", "U+1FE5",
               "U+1F78", "U+1F79", "U+1F7C", "U+1F7D", "U+1FF3", "U+03C9", "k", "å",
               "U+214E", "U+2170", "U+2171", "U+2172", "U+2173", "U+2174", "U+2175", "U+2176",
               "U+2177", "U+2178", "U+2179", "U+217A", "U+217B", "U+217C", "U+217D", "U+217E",
               "U+217F", "U+2184", "U+24D0", "U+24D1", "U+24D2", "U+24D3", "U+24D4", "U+24D5",
               "U+24D6", "U+24D7", "U+24D8", "U+24D9", "U+24DA", "U+24DB", "U+24DC", "U+24DD",
               "U+24DE", "U+24DF", "U+24E0", "U+24E1", "U+24E2", "U+24E3", "U+24E4", "U+24E5",
               "U+24E6", "U+24E7", "U+24E8", "U+24E9", "U+2C30", "U+2C31", "U+2C32", "U+2C33",
               "U+2C34", "U+2C35", "U+2C36", "U+2C37", "U+2C38", "U+2C39", "U+2C3A", "U+2C3B",
               "U+2C3C", "U+2C3D", "U+2C3E", "U+2C3F", "U+2C40", "U+2C41", "U+2C42", "U+2C43",
               "U+2C44", "U+2C45", "U+2C46", "U+2C47", "U+2C48", "U+2C49", "U+2C4A", "U+2C4B",
               "U+2C4C", "U+2C4D", "U+2C4E", "U+2C4F", "U+2C50", "U+2C51", "U+2C52", "U+2C53",
               "U+2C54", "U+2C55", "U+2C56", "U+2C57", "U+2C58", "U+2C59", "U+2C5A", "U+2C5B",
               "U+2C5C", "U+2C5D", "U+2C5E", "U+2C5F", "U+2C61", "U+026B", "U+1D7D", "U+027D",
               "U+2C68", "U+2C6A", "U+2C6C", "U+0251", "U+0271", "U+0250", "U+0252", "U+2C73",
               "U+2C76", "U+023F", "U+0240", "U+2C81", "U+2C83", "U+2C85", "U+2C87", "U+2C89",
               "U+2C8B", "U+2C8D", "U+2C8F", "U+2C91", "U+2C93", "U+2C95", "U+2C97", "U+2C99",
               "U+2C9B", "U+2C9D", "U+2C9F", "U+2CA1", "U+2CA3", "U+2CA5", "U+2CA7", "U+2CA9",
               "U+2CAB", "U+2CAD", "U+2CAF", "U+2CB1", "U+2CB3", "U+2CB5", "U+2CB7", "U+2CB9",
               "U+2CBB", "U+2CBD", "U+2CBF", "U+2CC1", "U+2CC3", "U+2CC5", "U+2CC7", "U+2CC9",
               "U+2CCB", "U+2CCD", "U+2CCF", "U+2CD1", "U+2CD3", "U+2CD5", "U+2CD7", "U+2CD9",
               "U+2CDB", "U+2CDD", "U+2CDF", "U+2CE1", "U+2CE3", "U+2CEC", "U+2CEE", "U+2CF3",
               "U+A641", "U+A643", "U+A645", "U+A647", "U+A649", "U+A64B", "U+A64D", "U+A64F",
               "U+A651", "U+A653", "U+A655", "U+A657", "U+A659", "U+A65B", "U+A65D", "U+A65F",
               "U+A661", "U+A663", "U+A665", "U+A667", "U+A669", "U+A66B", "U+A66D", "U+A681",
               "U+A683", "U+A685", "U+A687", "U+A689", "U+A68B", "U+A68D", "U+A68F", "U+A691",
               "U+A693", "U+A695", "U+A697", "U+A699", "U+A69B", "U+A723", "U+A725", "U+A727",
               "U+A729", "U+A72B", "U+A72D", "U+A72F", "U+A733", "U+A735", "U+A737", "U+A739",
               "U+A73B", "U+A73D", "U+A73F", "U+A741", "U+A743", "U+A745", "U+A747", "U+A749",
               "U+A74B", "U+A74D", "U+A74F", "U+A751", "U+A753", "U+A755", "U+A757", "U+A759",
               "U+A75B", "U+A75D", "U+A75F", "U+A761", "U+A763", "U+A765", "U+A767", "U+A769",
               "U+A76B", "U+A76D", "U+A76F", "U+A77A", "U+A77C", "U+1D79", "U+A77F", "U+A781",
               "U+A783", "U+A785", "U+A787", "U+A78C", "U+0265", "U+A791", "U+A793", "U+A797",
               "U+A799", "U+A79B", "U+A79D", "U+A79F", "U+A7A1", "U+A7A3", "U+A7A5", "U+A7A7",
               "U+A7A9", "U+0266", "U+025C", "U+0261", "U+026C", "U+026A", "U+029E", "U+0287",
               "U+029D", "U+AB53", "U+A7B5", "U+A7B7", "U+A7B9", "U+A7BB", "U+A7BD", "U+A7BF",
               "U+A7C1", "U+A7C3", "U+A794", "U+0282", "U+1D8E", "U+A7C8", "U+A7CA", "U+A7D1",
               "U+A7D7", "U+A7D9", "U+A7F6", "U+FF41", "U+FF42", "U+FF43", "U+FF44", "U+FF45",
               "U+FF46", "U+FF47", "U+FF48", "U+FF49", "U+FF4A", "U+FF4B", "U+FF4C", "U+FF4D",
               "U+FF4E", "U+FF4F", "U+FF50", "U+FF51", "U+FF52", "U+FF53", "U+FF54", "U+FF55",
               "U+FF56", "U+FF57", "U+FF58", "U+FF59", "U+FF5A", "U+10428", "U+10429", "U+1042A",
               "U+1042B", "U+1042C", "U+1042D", "U+1042E", "U+1042F", "U+10430", "U+10431", "U+10432",
               "U+10433", "U+10434", "U+10435", "U+10436", "U+10437", "U+10438", "U+10439", "U+1043A",
               "U+1043B", "U+1043C", "U+1043D", "U+1043E", "U+1043F", "U+10440", "U+10441", "U+10442",
               "U+10443", "U+10444", "U+10445", "U+10446", "U+10447", "U+10448", "U+10449", "U+1044A",
               "U+1044B", "U+1044C", "U+1044D", "U+1044E", "U+1044F", "U+104D8", "U+104D9", "U+104DA",
               "U+104DB", "U+104DC", "U+104DD", "U+104DE", "U+104DF", "U+104E0", "U+104E1", "U+104E2",
               "U+104E3", "U+104E4", "U+104E5", "U+104E6", "U+104E7", "U+104E8", "U+104E9", "U+104EA",
               "U+104EB", "U+104EC", "U+104ED", "U+104EE", "U+104EF", "U+104F0", "U+104F1", "U+104F2",
               "U+104F3", "U+104F4", "U+104F5", "U+104F6", "U+104F7", "U+104F8", "U+104F9", "U+104FA",
               "U+104FB", "U+10597", "U+10598", "U+10599", "U+1059A", "U+1059B", "U+1059C", "U+1059D",
               "U+1059E", "U+1059F", "U+105A0", "U+105A1", "U+105A3", "U+105A4", "U+105A5", "U+105A6",
               "U+105A7", "U+105A8", "U+105A9", "U+105AA", "U+105AB", "U+105AC", "U+105AD", "U+105AE",
               "U+105AF", "U+105B0", "U+105B1", "U+105B3", "U+105B4", "U+105B5", "U+105B6", "U+105B7",
               "U+105B8", "U+105B9", "U+105BB", "U+105BC", "U+10CC0", "U+10CC1", "U+10CC2", "U+10CC3",
               "U+10CC4", "U+10CC5", "U+10CC6", "U+10CC7", "U+10CC8", "U+10CC9", "U+10CCA", "U+10CCB",
               "U+10CCC", "U+10CCD", "U+10CCE", "U+10CCF", "U+10CD0", "U+10CD1", "U+10CD2", "U+10CD3",
               "U+10CD4", "U+10CD5", "U+10CD6", "U+10CD7", "U+10CD8", "U+10CD9", "U+10CDA", "U+10CDB",
               "U+10CDC", "U+10CDD", "U+10CDE", "U+10CDF", "U+10CE0", "U+10CE1", "U+10CE2", "U+10CE3",
               "U+10CE4", "U+10CE5", "U+10CE6", "U+10CE7", "U+10CE8", "U+10CE9", "U+10CEA", "U+10CEB",
               "U+10CEC", "U+10CED", "U+10CEE", "U+10CEF", "U+10CF0", "U+10CF1", "U+10CF2", "U+118C0",
               "U+118C1", "U+118C2", "U+118C3", "U+118C4", "U+118C5", "U+118C6", "U+118C7", "U+118C8",
               "U+118C9", "U+118CA", "U+118CB", "U+118CC", "U+118CD", "U+118CE", "U+118CF", "U+118D0",
               "U+118D1", "U+118D2", "U+118D3", "U+118D4", "U+118D5", "U+118D6", "U+118D7", "U+118D8",
               "U+118D9", "U+118DA", "U+118DB", "U+118DC", "U+118DD", "U+118DE", "U+118DF", "U+16E60",
               "U+16E61", "U+16E62", "U+16E63", "U+16E64", "U+16E65", "U+16E66", "U+16E67", "U+16E68",
               "U+16E69", "U+16E6A", "U+16E6B", "U+16E6C", "U+16E6D", "U+16E6E", "U+16E6F", "U+16E70",
               "U+16E71", "U+16E72", "U+16E73", "U+16E74", "U+16E75", "U+16E76", "U+16E77", "U+16E78",
               "U+16E79", "U+16E7A", "U+16E7B", "U+16E7C", "U+16E7D", "U+16E7E", "U+16E7F", "U+1E922",
               "U+1E923", "U+1E924", "U+1E925", "U+1E926", "U+1E927", "U+1E928", "U+1E929", "U+1E92A",
               "U+1E92B", "U+1E92C", "U+1E92D", "U+1E92E", "U+1E92F", "U+1E930", "U+1E931", "U+1E932",
               "U+1E933", "U+1E934", "U+1E935", "U+1E936", "U+1E937", "U+1E938", "U+1E939", "U+1E93A",
               "U+1E93B", "U+1E93C", "U+1E93D", "U+1E93E", "U+1E93F", "U+1E940", "U+1E941", "U+1E942",
               "U+1E943">>
UpperCase == <<"A", "B", "C", "D", "E", "F", "G", "H",
               "I", "J", "K", "L", "M", "N", "O", "P",
               "Q", "R", "S", "T", "U", "V", "W", "X",
               "Y", "Z", "À", "Á", "Â", "Ã", "Ä", "Å",
               "Æ", "Ç", "È", "É", "Ê", "Ë", "Ì", "Í",
               "Î", "Ï", "Ð", "Ñ", "Ò", "Ó", "Ô", "Õ",
               "Ö", "Ø", "Ù", "Ú", "Û", "Ü", "Ý", "Þ",
               "U+0100", "U+0102", "U+0104", "U+0106", "U+0108", "U+010A", "U+010C", "U+010E",
               "U+0110", "U+0112", "U+0114", "U+0116", "U+0118", "U+011A", "U+011C", "U+011E",
               "U+0120", "U+0122", "U+0124", "U+0126", "U+0128", "U+012A", "U+012C", "U+012E",
               "U+0130", "U+0132", "U+0134", "U+0136", "U+0139", "U+013B", "U+013D", "U+013F",
               "U+0141", "U+0143", "U+0145", "U+0147", "U+014A", "U+014C", "U+014E", "U+0150",
               "U+0152", "U+0154", "U+0156", "U+0158", "U+015A", "U+015C", "U+015E", "U+0160",
               "U+0162", "U+0164", "U+0166", "U+0168", "U+016A", "U+016C", "U+016E", "U+0170",
               "U+0172", "U+0174", "U+0176", "U+0178", "U+0179", "U+017B", "U+017D", "U+0181",
               "U+0182", "U+0184", "U+0186", "U+0187", "U+0189", "U+018A", "U+018B", "U+018E",
               "U+018F", "U+0190", "U+0191", "U+0193", "U+0194", "U+0196", "U+0197", "U+0198",
               "U+019C", "U+019D", "U+019F", "U+01A0", "U+01A2", "U+01A4", "U+01A6", "U+01A7",
               "U+01A9", "U+01AC", "U+01AE", "U+01AF", "U+01B1", "U+01B2", "U+01B3", "U+01B5",
               "U+01B7", "U+01B8", "U+01BC", "U+01C4", "U+01C5", "U+01C7", "U+01C8", "U+01CA",
               "U+01CB", "U+01CD", "U+01CF", "U+01D1", "U+01D3", "U+01D5", "U+01D7", "U+01D9",
               "U+01DB", "U+01DE", "U+01E0", "U+01E2", "U+01E4", "U+01E6", "U+01E8", "U+01EA",
               "U+01EC", "U+01EE", "U+01F1", "U+01F2", "U+01F4", "U+01F6", "U+01F7", "U+01F8",
               "U+01FA", "U+01FC", "U+01FE", "U+0200", "U+0202", "U+0204", "U+0206", "U+0208",
               "U+020A", "U+020C", "U+020E", "U+0210", "U+0212", "U+0214", "U+0216", "U+0218",
               "U+021A", "U+021C", "U+021E", "U+0220", "U+0222", "U+0224", "U+0226", "U+0228",
               "U+022A", "U+022C", "U+022E", "U+0230", "U+0232", "U+023A", "U+023B", "U+023D",
               "U+023E", "U+0241", "U+0243", "U+0244", "U+0245", "U+0246", "U+0248", "U+024A",
               "U+024C", "U+024E", "U+0370", "U+0372", "U+0376", "U+037F", "U+0386", "U+0388",
               "U+0389", "U+038A", "U+038C", "U+038E", "U+038F", "U+0391", "U+0392", "U+0393",
               "U+0394", "U+0395", "U+0396", "U+0397", "U+0398", "U+0399", "U+039A", "U+039B",
               "U+039C", "U+039D", "U+039E", "U+039F", "U+03A0", "U+03A1", "U+03A3", "U+03A4",
               "U+03A5", "U+03A6", "U+03A7", "U+03A8", "U+03A9", "U+03AA", "U+03AB", "U+03CF",
               "U+03D8", "U+03DA", "U+03DC", "U+03DE", "U+03E0", "U+03E2", "U+03E4", "U+03E6",
               "U+03E8", "U+03EA", "U+03EC", "U+03EE", "U+03F4", "U+03F7", "U+03F9", "U+03FA",
               "U+03FD", "U+03FE", "U+03FF", "U+0400", "U+0401", "U+0402", "U+0403", "U+0404",
               "U+0405", "U+0406", "U+0407", "U+0408", "U+0409", "U+040A", "U+040B", "U+040C",
               "U+040D", "U+040E", "U+040F", "U+0410", "U+0411", "U+0412", "U+0413", "U+0414",
               "U+0415", "U+0416", "U+0417", "U+0418", "U+0419", "U+041A", "U+041B", "U+041C",
               "U+041D", "U+041E", "U+041F", "U+0420", "U+0421", "U+0422", "U+0423", "U+0424",
               "U+0425", "U+0426", "U+0427", "U+0428", "U+0429", "U+042A", "U+042B", "U+042C",
               "U+042D", "U+042E", "U+042F", "U+0460", "U+0462", "U+0464", "U+0466", "U+0468",
               "U+046A", "U+046C", "U+046E", "U+0470", "U+0472", "U+0474", "U+0476", "U+0478",
               "U+047A", "U+047C", "U+047E", "U+0480", "U+048A", "U+048C", "U+048E", "U+0490",
               "U+0492", "U+0494", "U+0496", "U+0498", "U+049A", "U+049C", "U+049E", "U+04A0",
               "U+04A2", "U+04A4", "U+04A6", "U+04A8", "U+04AA", "U+04AC", "U+04AE", "U+04B0",
               "U+04B2", "U+04B4", "U+04B6", "U+04B8", "U+04BA", "U+04BC", "U+04BE", "U+04C0",
               "U+04C1", "U+04C3", "U+04C5", "U+04C7", "U+04C9", "U+04CB", "U+04CD", "U+04D0",
               "U+04D2", "U+04D4", "U+04D6", "U+04D8", "U+04DA", "U+04DC", "U+04DE", "U+04E0",
               "U+04E2", "U+04E4", "U+04E6", "U+04E8", "U+04EA", "U+04EC", "U+04EE", "U+04F0",
               "U+04F2", "U+04F4", "U+04F6", "U+04F8", "U+04FA", "U+04FC", "U+04FE", "U+0500",
               "U+0502", "U+0504", "U+0506", "U+0508", "U+050A", "U+050C", "U+050E", "U+0510",
               "U+0512", "U+0514", "U+0516", "U+0518", "U+051A", "U+051C", "U+051E", "U+0520",
               "U+0522", "U+0524", "U+0526", "U+0528", "U+052A", "U+052C", "U+052E", "U+0531",
               "U+0532", "U+0533", "U+0534", "U+0535", "U+0536", "U+0537", "U+0538", "U+0539",
               "U+053A", "U+053B", "U+053C", "U+053D", "U+053E", "U+053F", "U+0540", "U+0541",
               "U+0542", "U+0543", "U+0544", "U+0545", "U+0546", "U+0547", "U+0548", "U+0549",
               "U+054A", "U+054B", "U+054C", "U+054D", "U+054E", "U+054F", "U+0550", "U+0551",
               "U+0552", "U+0553", "U+0554", "U+0555", "U+0556", "U+10A0", "U+10A1", "U+10A2",
               "U+10A3", "U+10A4", "U+10A5", "U+10A6", "U+10A7", "U+10A8", "U+10A9", "U+10AA",
               "U+10AB", "U+10AC", "U+10AD", "U+10AE", "U+10AF", "U+10B0", "U+10B1", "U+10B2",
               "U+10B3", "U+10B4", "U+10B5", "U+10B6", "U+10B7", "U+10B8", "U+10B9", "U+10BA",
               "U+10BB", "U+10BC", "U+10BD", "U+10BE", "U+10BF", "U+10C0", "U+10C1", "U+10C2",
               "U+10C3", "U+10C4", "U+10C5", "U+10C7", "U+10CD", "U+13A0", "U+13A1", "U+13A2",
               "U+13A3", "U+13A4", "U+13A5", "U+13A6", "U+13A7", "U+13A8", "U+13A9", "U+13AA",
               "U+13AB", "U+13AC", "U+13AD", "U+13AE", "U+13AF", "U+13B0", "U+13B1", "U+13B2",
               "U+13B3", "U+13B4", "U+13B5", "U+13B6", "U+13B7", "U+13B8", "U+13B9", "U+13BA",
               "U+13BB", "U+13BC", "U+13BD", "U+13BE", "U+13BF", "U+13C0", "U+13C1", "U+13C2",
               "U+13C3", "U+13C4", "U+13C5", "U+13C6", "U+13C7", "U+13C8", "U+13C9", "U+13CA",
               "U+13CB", "U+13CC", "U+13CD", "U+13CE", "U+13CF", "U+13D0", "U+13D1", "U+13D2",
               "U+13D3", "U+13D4", "U+13D5", "U+13D6", "U+13D7", "U+13D8", "U+13D9", "U+13DA",
               "U+13DB", "U+13DC", "U+13DD", "U+13DE", "U+13DF", "U+13E0", "U+13E1", "U+13E2",
               "U+13E3", "U+13E4", "U+13E5", "U+13E6", "U+13E7", "U+13E8", "U+13E9", "U+13EA",
               "U+13EB", "U+13EC", "U+13ED", "U+13EE", "U+13EF", "U+13F0", "U+13F1", "U+13F2",
               "U+13F3", "U+13F4", "U+13F5", "U+1C90", "U+1C91", "U+1C92", "U+1C93", "U+1C94",
               "U+1C95", "U+1C96", "U+1C97", "U+1C98", "U+1C99", "U+1C9A", "U+1C9B", "U+1C9C",
               "U+1C9D", "U+1C9E", "U+1C9F", "U+1CA0", "U+1CA1", "U+1CA2", "U+1CA3", "U+1CA4",
               "U+1CA5", "U+1CA6", "U+1CA7", "U+1CA8", "U+1CA9", "U+1CAA", "U+1CAB", "U+1CAC",
               "U+1CAD", "U+1CAE", "U+1CAF", "U+1CB0", "U+1CB1", "U+1CB2", "U+1CB3", "U+1CB4",
               "U+1CB5", "U+1CB6", "U+1CB7", "U+1CB8", "U+1CB9", "U+1CBA", "U+1CBD", "U+1CBE",
               "U+1CBF", "U+1E00", "U+1E02", "U+1E04", "U+1E06", "U+1E08", "U+1E0A", "U+1E0C",
               "U+1E0E", "U+1E10", "U+1E12", "U+1E14", "U+1E16", "U+1E18", "U+1E1A", "U+1E1C",
               "U+1E1E", "U+1E20", "U+1E22", "U+1E24", "U+1E26", "U+1E28", "U+1E2A", "U+1E2C",
               "U+1E2E", "U+1E30", "U+1E32", "U+1E34", "U+1E36", "U+1E38", "U+1E3A", "U+1E3C",
               "U+1E3E", "U+1E40", "U+1E42", "U+1E44", "U+1E46", "U+1E48", "U+1E4A", "U+1E4C",
               "U+1E4E", "U+1E50", "U+1E52", "U+1E54", "U+1E56", "U+1E58", "U+1E5A", "U+1E5C",
               "U+1E5E", "U+1E60", "U+1E62", "U+1E64", "U+1E66", "U+1E68", "U+1E6A", "U+1E6C",
               "U+1E6E", "U+1E70", "U+1E72", "U+1E74", "U+1E76", "U+1E78", "U+1E7A", "U+1E7C",
               "U+1E7E", "U+1E80", "U+1E82", "U+1E84", "U+1E86", "U+1E88", "U+1E8A", "U+1E8C",
               "U+1E8E", "U+1E90", "U+1E92", "U+1E94", "U+1E9E", "U+1EA0", "U+1EA2", "U+1EA4",
               "U+1EA6", "U+1EA8", "U+1EAA", "U+1EAC", "U+1EAE", "U+1EB0", "U+1EB2", "U+1EB4",
               "U+1EB6", "U+1EB8", "U+1EBA", "U+1EBC", "U+1EBE", "U+1EC0", "U+1EC2", "U+1EC4",
               "U+1EC6", "U+1EC8", "U+1ECA", "U+1ECC", "U+1ECE", "U+1ED0", "U+1ED2", "U+1ED4",
               "U+1ED6", "U+1ED8", "U+1EDA", "U+1EDC", "U+1EDE", "U+1EE0", "U+1EE2", "U+1EE4",
               "U+1EE6", "U+1EE8", "U+1EEA", "U+1EEC", "U+1EEE", "U+1EF0", "U+1EF2", "U+1EF4",
               "U+1EF6", "U+1EF8", "U+1EFA", "U+1EFC", "U+1EFE", "U+1F08", "U+1F09", "U+1F0A",
               "U+1F0B", "U+1F0C", "U+1F0D", "U+1F0E", "U+1F0F", "U+1F18", "U+1F19", "U+1F1A",
               "U+1F1B", "U+1F1C", "U+1F1D", "U+1F28", "U+1F29", "U+1F2A", "U+1F2B", "U+1F2C",
               "U+1F2D", "U+1F2E", "U+1F2F", "U+1F38", "U+1F39", "U+1F3A", "U+1F3B", "U+1F3C",
               "U+1F3D", "U+1F3E", "U+1F3F", "U+1F48", "U+1F49", "U+1F4A", "U+1F4B", "U+1F4C",
               "U+1F4D", "U+1F59", "U+1F5B", "U+1F5D", "U+1F5F", "U+1F68", "U+1F69", "U+1F6A",
               "U+1F6B", "U+1F6C", "U+1F6D", "U+1F6E", "U+1F6F", "U+1F88", "U+1F89", "U+1F8A",
               "U+1F8B", "U+1F8C", "U+1F8D", "U+1F8E", "U+1F8F", "U+1F98", "U+1F99", "U+1F9A",
               "U+1F9B", "U+1F9C", "U+1F9D", "U+1F9E", "U+1F9F", "U+1FA8", "U+1FA9", "U+1FAA",
               "U+1FAB", "U+1FAC", "U+1FAD", "U+1FAE", "U+1FAF", "U+1FB8", "U+1FB9", "U+1FBA",
               "U+1FBB", "U+1FBC", "U+1FC8", "U+1FC9", "U+1FCA", "U+1FCB", "U+1FCC", "U+1FD8",
               "U+1FD9", "U+1FDA", "U+1FDB", "U+1FE8", "U+1FE9", "U+1FEA", "U+1FEB", "U+1FEC",
               "U+1FF8", "U+1FF9", "U+1FFA", "U+1FFB", "U+1FFC", "U+2126", "U+212A", "U+212B",
               "U+2132", "U+2160", "U+2161", "U+2162", "U+2163", "U+2164", "U+2165", "U+2166",
               "U+2167", "U+2168", "U+2169", "U+216A", "U+216B", "U+216C", "U+216D", "U+216E",
               "U+216F", "U+2183", "U+24B6", "U+24B7", "U+24B8", "U+24B9", "U+24BA", "U+24BB",
               "U+24BC", "U+24BD", "U+24BE", "U+24BF", "U+24C0", "U+24C1", "U+24C2", "U+24C3",
               "U+24C4", "U+24C5", "U+24C6", "U+24C7", "U+24C8", "U+24C9", "U+24CA", "U+24CB",
               "U+24CC", "U+24CD", "U+24CE", "U+24CF", "U+2C00", "U+2C01", "U+2C02", "U+2C03",
               "U+2C04", "U+2C05", "U+2C06", "U+2C07", "U+2C08", "U+2C09", "U+2C0A", "U+2C0B",
               "U+2C0C", "U+2C0D", "U+2C0E", "U+2C0F", "U+2C10", "U+2C11", "U+2C12", "U+2C13",
               "U+2C14", "U+2C15", "U+2C16", "U+2C17", "U+2C18", "U+2C19", "U+2C1A", "U+2C1B",
               "U+2C1C", "U+2C1D", "U+2C1E", "U+2C1F", "U+2C20", "U+2C21", "U+2C22", "U+2C23",
               "U+2C24", "U+2C25", "U+2C26", "U+2C27", "U+2C28", "U+2C29", "U+2C2A", "U+2C2B",
               "U+2C2C", "U+2C2D", "U+2C2E", "U+2C2F", "U+2C60", "U+2C62", "U+2C63", "U+2C64",
               "U+2C67", "U+2C69", "U+2C6B", "U+2C6D", "U+2C6E", "U+2C6F", "U+2C70", "U+2C72",
               "U+2C75", "U+2C7E", "U+2C7F", "U+2C80", "U+2C82", "U+2C84", "U+2C86", "U+2C88",
               "U+2C8A", "U+2C8C", "U+2C8E", "U+2C90", "U+2C92", "U+2C94", "U+2C96", "U+2C98",
               "U+2C9A", "U+2C9C", "U+2C9E", "U+2CA0", "U+2CA2", "U+2CA4", "U+2CA6", "U+2CA8",
               "U+2CAA", "U+2CAC", "U+2CAE", "U+2CB0", "U+2CB2", "U+2CB4", "U+2CB6", "U+2CB8",
               "U+2CBA", "U+2CBC", "U+2CBE", "U+2CC0", "U+2CC2", "U+2CC4", "U+2CC6", "U+2CC8",
               "U+2CCA", "U+2CCC", "U+2CCE", "U+2CD0", "U+2CD2", "U+2CD4", "U+2CD6", "U+2CD8",
               "U+2CDA", "U+2CDC", "U+2CDE", "U+2CE0", "U+2CE2", "U+2CEB", "U+2CED", "U+2CF2",
               "U+A640", "U+A642", "U+A644", "U+A646", "U+A648", "U+A64A", "U+A64C", "U+A64E",
               "U+A650", "U+A652", "U+A654", "U+A656", "U+A658", "U+A65A", "U+A65C", "U+A65E",
               "U+A660", "U+A662", "U+A664", "U+A666", "U+A668", "U+A66A", "U+A66C", "U+A680",
               "U+A682", "U+A684", "U+A686", "U+A688", "U+A68A", "U+A68C", "U+A68E", "U+A690",
               "U+A692", "U+A694", "U+A696", "U+A698", "U+A69A", "U+A722", "U+A724", "U+A726",
               "U+A728", "U+A72A", "U+A72C", "U+A72E", "U+A732", "U+A734", "U+A736", "U+A738",
               "U+A73A", "U+A73C", "U+A73E", "U+A740", "U+A742", "U+A744", "U+A746", "U+A748",
               "U+A74A", "U+A74C", "U+A74E", "U+A750", "U+A752", "U+A754", "U+A756", "U+A758",
               "U+A75A", "U+A75C", "U+A75E", "U+A760", "U+A762", "U+A764", "U+A766", "U+A768",
               "U+A76A", "U+A76C", "U+A76E", "U+A779", "U+A77B", "U+A77D", "U+A77E", "U+A780",
               "U+A782", "U+A784", "U+A786", "U+A78B", "U+A78D", "U+A790", "U+A792", "U+A796",
               "U+A798", "U+A79A", "U+A79C", "U+A79E", "U+A7A0", "U+A7A2", "U+A7A4", "U+A7A6",
               "U+A7A8", "U+A7AA", "U+A7AB", "U+A7AC", "U+A7AD", "U+A7AE", "U+A7B0", "U+A7B1",
               "U+A7B2", "U+A7B3", "U+A7B4", "U+A7B6", "U+A7B8", "U+A7BA", "U+A7BC", "U+A7BE",
               "U+A7C0", "U+A7C2", "U+A7C4", "U+A7C5", "U+A7C6", "U+A7C7", "U+A7C9", "U+A7D0",
               "U+A7D6", "U+A7D8", "U+A7F5", "U+FF21", "U+FF22", "U+FF23", "U+FF24", "U+FF25",
               "U+FF26", "U+FF27", "U+FF28", "U+FF29", "U+FF2A", "U+FF2B", "U+FF2C", "U+FF2D",
               "U+FF2E", "U+FF2F", "U+FF30", "U+FF31", "U+FF32", "U+FF33", "U+FF34", "U+FF35",
               "U+FF36", "U+FF37", "U+FF38", "U+FF39", "U+FF3A", "U+10400", "U+10401", "U+10402",
               "U+10403", "U+10404", "U+10405", "U+10406", "U+10407", "U+10408", "U+10409", "U+1040A",
               "U+1040B", "U+1040C", "U+1040D", "U+1040E", "U+1040F", "U+10410", "U+10411", "U+10412",
               "U+10413", "U+10414", "U+10415", "U+10416", "U+10417", "U+10418", "U+10419", "U+1041A",
               "U+1041B", "U+1041C", "U+1041D", "U+1041E", "U+1041F", "U+10420", "U+10421", "U+10422",
               "U+10423", "U+10424", "U+10425", "U+10426", "U+10427", "U+104B0", "U+104B1", "U+104B2",
               "U+104B3", "U+104B4", "U+104B5", "U+104B6", "U+104B7", "U+104B8", "U+104B9", "U+104BA",
               "U+104BB", "U+104BC", "U+104BD", "U+104BE", "U+104BF", "U+104C0", "U+104C1", "U+104C2",
               "U+104C3", "U+104C4", "U+104C5", "U+104C6", "U+104C7", "U+104C8", "U+104C9", "U+104CA",
               "U+104CB", "U+104CC", "U+104CD", "U+104CE", "U+104CF", "U+104D0", "U+104D1", "U+104D2",
               "U+104D3", "U+10570", "U+10571", "U+10572", "U+10573", "U+10574", "U+10575", "U+10576",
               "U+10577", "U+10578", "U+10579", "U+1057A", "U+1057C", "U+1057D", "U+1057E", "U+1057F",
               "U+10580", "U+10581", "U+10582", "U+10583", "U+10584", "U+10585", "U+10586", "U+10587",
               "U+10588", "U+10589", "U+1058A", "U+1058C", "U+1058D", "U+1058E", "U+1058F", "U+10590",
               "U+10591", "U+10592", "U+10594", "U+10595", "U+10C80", "U+10C81", "U+10C82", "U+10C83",
               "U+10C84", "U+10C85", "U+10C86", "U+10C87", "U+10C88", "U+10C89", "U+10C8A", "U+10C8B",
               "U+10C8C", "U+10C8D", "U+10C8E", "U+10C8F", "U+10C90", "U+10C91", "U+10C92", "U+10C93",
               "U+10C94", "U+10C95", "U+10C96", "U+10C97", "U+10C98", "U+10C99", "U+10C9A", "U+10C9B",
               "U+10C9C", "U+10C9D", "U+10C9E", "U+10C9F", "U+10CA0", "U+10CA1", "U+10CA2", "U+10CA3",
               "U+10CA4", "U+10CA5", "U+10CA6", "U+10CA7", "U+10CA8", "U+10CA9", "U+10CAA", "U+10CAB",
               "U+10CAC", "U+10CAD", "U+10CAE", "U+10CAF", "U+10CB0", "U+10CB1", "U+10CB2", "U+118A0",
               "U+118A1", "U+118A2", "U+118A3", "U+118A4", "U+118A5", "U+118A6", "U+118A7", "U+118A8",
               "U+118A9", "U+118AA", "U+118AB", "U+118AC", "U+118AD", "U+118AE", "U+118AF", "U+118B0",
               "U+118B1", "U+118B2", "U+118B3", "U+118B4", "U+118B5", "U+118B6", "U+118B7", "U+118B8",
               "U+118B9", "U+118BA", "U+118BB", "U+118BC", "U+118BD", "U+118BE", "U+118BF", "U+16E40",
               "U+16E41", "U+16E42", "U+16E43", "U+16E44", "U+16E45", "U+16E46", "U+16E47", "U+16E48",
               "U+16E49", "U+16E4A", "U+16E4B", "U+16E4C", "U+16E4D", "U+16E4E", "U+16E4F", "U+16E50",
               "U+16E51", "U+16E52", "U+16E53", "U+16E54", "U+16E55", "U+16E56", "U+16E57", "U+16E58",
               "U+16E59", "U+16E5A", "U+16E5B", "U+16E5C", "U+16E5D", "U+16E5E", "U+16E5F", "U+1E900",
               "U+1E901", "U+1E902", "U+1E903", "U+1E904", "U+1E905", "U+1E906", "U+1E907", "U+1E908",
               "U+1E909", "U+1E90A", "U+1E90B", "U+1E90C", "U+1E90D", "U+1E90E", "U+1E90F", "U+1E910",
               "U+1E911", "U+1E912", "U+1E913", "U+1E914", "U+1E915", "U+1E916", "U+1E917", "U+1E918",
               "U+1E919", "U+1E91A", "U+1E91B", "U+1E91C", "U+1E91D", "U+1E91E", "U+1E91F", "U+1E920",
               "U+1E921">>
DigitChars == <<"0", "1", "2", "3", "4", "5", "6", "7", "8", "9">>
Letters == {LowerCase[i] : i \in 1..26}
Digits  == {DigitChars[i] : i \in 1..10}
\* The characters unicode.IsSpace holds of: tab, line feed, vertical tab
\* (U+000B), form feed, carriage return, space, U+0085, U+00A0, and the spaces
\* above U+00FF.
Spaces  == {"\t", "\n", "", "\f", "\r", " ", "", " ",
            "U+1680", "U+2000", "U+2001", "U+2002", "U+2003", "U+2004", "U+2005",
            "U+2006", "U+2007", "U+2008", "U+2009", "U+200A", "U+2028", "U+2029",
            "U+202F", "U+205F", "U+3000"}

DigitValue(c) == (CHOOSE i \in 1..10 : DigitChars[i] = c) - 1

\* strings.ToLower
ToLowerChar(c) ==
    IF \E i \in 1..Len(UpperCase) : UpperCase[i] = c
    THEN LowerCase[CHOOSE i \in 1..Len(UpperCase) : UpperCase[i] = c] ELSE c
ToLower(s) == [i \in 1..Len(s) |-> ToLowerChar(s[i])]

\* strings.TrimSpace
RECURSIVE TrimLeft(_)
TrimLeft(s) == IF s # << >> /\ s[1] \in Spaces THEN TrimLeft(Tail(s)) ELSE s
RECURSIVE TrimRight(_)
TrimRight(s) == IF s # << >> /\ s[Len(s)] \in Spaces
                THEN TrimRight(SubSeq(s, 1, Len(s) - 1)) ELSE s
TrimSpace(s) == TrimRight(TrimLeft(s))

\* regexp ^[a-z0-9]+$
alphaNumRegex(s) == s # << >> /\ \A i \in 1..Len(s) : s[i] \in Letters \cup Digits

\* strings.Join(pieces, "-")
RECURSIVE Join(_)
Join(pieces) ==
    IF pieces = << >> THEN << >>
    ELSE IF Len(pieces) = 1 THEN pieces[1]
    ELSE LET h == Len(pieces) \div 2
         IN  Join(SubSeq(pieces, 1, h)) \o <<"-">> \o Join(SubSeq(pieces, h + 1, Len(pieces)))

\* strings.Split(s, "-"): one more token than there are hyphens; tokens may be
\* empty.  The tokens of s are those left of a hyphen, then those right of it.
RECURSIVE Split(_)
Split(s) ==
    LET hyphens == {i \in 1..Len(s) : s[i] = "-"}
        far(p)  == IF 2 * p > Len(s) THEN 2 * p - Len(s) ELSE Len(s) - 2 * p
        middle  == CHOOSE p \in hyphens : \A q \in hyphens : far(p) <= far(q)
    IN  IF hyphens = {} THEN <<s>>
        ELSE Split(SubSeq(s, 1, middle - 1)) \o Split(SubSeq(s, middle + 1, Len(s)))

\* fmt.Sprintf("%d", n) for a number n >= 0.
\* It is written four digits at a time, from the lowest.
DigitOf(v, place) == DigitChars[((v \div 10^place) % 10) + 1]
FourDigits(v) == <<DigitOf(v, 3), DigitOf(v, 2), DigitOf(v, 1), DigitOf(v, 0)>>
RECURSIVE LeadingDigits(_)
LeadingDigits(v) == IF v < 10 THEN <<DigitOf(v, 0)>>
                    ELSE Append(LeadingDigits(v \div 10), DigitOf(v, 0))
RECURSIVE Itoa(_)
Itoa(n) ==
    LET digits(qr) == After(qr, IF qr[1] = << >> THEN LeadingDigits(qr[2])
                                ELSE Itoa(qr[1]) \o FourDigits(qr[2]))
    IN  digits(ShortDivMod(n, 10000))

\* strconv.Atoi: an optional sign, then decimal digits only; a value outside
\* int (64 bits) is an error.  [ok, neg, mag]: the parsed value is -mag or mag.
RECURSIVE ParseDigits(_, _, _)
ParseDigits(s, lo, hi) ==
    \* the value of the digits lo..hi of s: that of its first half, shifted by
    \* the length of the second, plus that of the second half
    LET shifted(high, low) ==
            After(<<high, low>>,
                  BigAdd(BigMul(high, BigPow(<<10>>, hi - ((lo + hi) \div 2))), low))
    IN  IF lo > hi THEN << >>
        ELSE IF lo = hi THEN Big(DigitValue(s[lo]))
        ELSE shifted(ParseDigits(s, lo, (lo + hi) \div 2),
                     ParseDigits(s, (lo + hi) \div 2 + 1, hi))
Atoi(s) ==
    LET value(neg, mag) ==
            [ok  |-> BigLeq(mag, IF neg THEN BigAdd(MaxInt64, <<1>>) ELSE MaxInt64),
             neg |-> neg, mag |-> mag]
        digits(neg, body) ==
            IF body # << >> /\ \A i \in 1..Len(body) : body[i] \in Digits
            THEN value(neg, ParseDigits(body, 1, Len(body)))
            ELSE [ok |-> FALSE, neg |-> neg, mag |-> << >>]
    IN  digits(s # << >> /\ s[1] = "-",
               IF s # << >> /\ s[1] \in {"+", "-"} THEN Tail(s) ELSE s)

\* ------------------------------------------------------------------------
\* Helpers of HumanID.go
\* ------------------------------------------------------------------------
feistelRounds == 4
SuffixSpace == 100          \* maxIndex := baseCombos * 100

\* unique: the first occurrence of every non-empty string, in order.
RECURSIVE unique(_)
unique(input) ==
    IF input = << >> THEN << >>
    ELSE LET init == unique(SubSeq(input, 1, Len(input) - 1))
             item == input[Len(input)]
         IN  IF item = << >> \/ \E i \in 1..Len(init) : init[i] = item
             THEN init ELSE Append(init, item)

\* isPowerOfTwo: x != 0 && (x & (x-1)) == 0
\* isPowerOfTwo testing the lowest bit only: every even number passes.
isPowerOfTwoLowBit(x) == x # << >> /\ BigAnd(x, <<1>>) = << >>

isPowerOfTwo(x) == x # << >> /\ BigAnd(x, Sub64(x, <<1>>)) = << >>

\* bitsNeeded: the number of right shifts that bring val down to 1.  The state
\* of its loop is [val, bits]; a uint64 leaves the loop within 64 iterations.
RECURSIVE bitsLoop(_, _, _)
bitsLoop(lo, hi, st) ==
    IF lo > hi \/ ~BigLess(<<1>>, st.val) THEN st
    ELSE IF lo = hi THEN [val |-> BigShr(st.val, 1), bits |-> st.bits + 1]
    ELSE LET half == bitsLoop(lo, (lo + hi) \div 2, st)
         IN  After(half, bitsLoop((lo + hi) \div 2 + 1, hi, half))
bitsNeeded(val) == IF val = << >> THEN 0 ELSE bitsLoop(1, 4 * LimbBits, [val |-> val, bits |-> 0]).bits

\* A uint64 as its four 16-bit parts <<lowest, ..., highest>>, and the
\* operators of feistelF on such words.
Word64(a) == <<LimbAt(a, 1), LimbAt(a, 2), LimbAt(a, 3), LimbAt(a, 4)>>
w64Add(a, b) ==
    LET s1 == a[1] + b[1]
        s2 == a[2] + b[2] + (s1 \div LimbBase)
        s3 == a[3] + b[3] + (s2 \div LimbBase)
        s4 == a[4] + b[4] + (s3 \div LimbBase)
    IN  <<s1 % LimbBase, s2 % LimbBase, s3 % LimbBase, s4 % LimbBase>>
\* x * y for two 16-bit parts: <<low part, high part>>
partMul(x, y) ==
    LET mid == (x \div HalfLimb) * (y % HalfLimb) + (x % HalfLimb) * (y \div HalfLimb)
        low == (mid % HalfLimb) * HalfLimb + (x % HalfLimb) * (y % HalfLimb)
    IN  <<low % LimbBase,
          (x \div HalfLimb) * (y \div HalfLimb) + (mid \div HalfLimb) + (low \div LimbBase)>>
\* a * b for two words below 2^32: the product is below 2^64
w64Mul32(a, b) ==
    LET sum(p11, p12, p21, p22) ==
            LET s2 == p11[2] + p12[1] + p21[1]
                s3 == p12[2] + p21[2] + p22[1] + (s2 \div LimbBase)
                s4 == p22[2] + (s3 \div LimbBase)
            IN  <<p11[1], s2 % LimbBase, s3 % LimbBase, s4 % LimbBase>>
    IN  sum(partMul(a[1], b[1]), partMul(a[1], b[2]), partMul(a[2], b[1]), partMul(a[2], b[2]))
w64Xor(a, b) == [i \in 1..4 |-> XorInt(a[i], b[i])]
w64Or(a, b)  == [i \in 1..4 |-> a[i] + b[i] - AndInt(a[i], b[i])]
w64Shl16(a) == <<0, a[1], a[2], a[3]>>
w64Shr16(a) == <<a[2], a[3], a[4], 0>>

\* feistelF(r uint32, k uint64) uint32:
\* ((uint64(r)*0x5bd1e995 + k) ^ (uint64(r)<<16 | uint64(r)>>16)) & 0xFFFFFFFF
feistelF(r, k) ==
    LET low32(word) == Norm(<<word[1], word[2]>>)
        mixed(r64)  == After(r64,
                             w64Xor(w64Add(w64Mul32(r64, <<59797, 23505, 0, 0>>), Word64(k)),
                                    w64Or(w64Shl16(r64), w64Shr16(r64))))
    IN  low32(mixed(Word64(r)))

\* 1<<n - 1
lowBits(n) == Sub64(Shl64(<<1>>, n), <<1>>)

RECURSIVE feistelForward(_, _, _, _, _)
feistelForward(L, R, keys, i, maskL) ==
    LET round(newR) == After(newR, feistelForward(R, newR, keys, i + 1, maskL))
    IN  IF i > Len(keys) THEN <<L, R>>
        ELSE round(BigXor(L, BigAnd(feistelF(U32(R), keys[i]), maskL)))

\* feistelPermute(x, keys, bits)
feistelPermute(x, keys, bits) ==
    LET joined(LR, half) == After(LR, BigOr(Shl64(LR[1], half), LR[2]))
        begun(L, R, half, maskL) ==
            After(<<L, R>>, joined(feistelForward(L, R, keys, 1, maskL), half))
        rounds(half, maskL, maskR) ==
            After(<<maskL, maskR>>,
                  begun(BigAnd(BigShr(x, half), maskL), BigAnd(x, maskR), half, maskL))
        halves(half) == rounds(half, lowBits(bits - half), lowBits(half))
    IN  halves(bits \div 2)

RECURSIVE feistelBackward(_, _, _, _, _)
feistelBackward(L, R, keys, i, maskL) ==
    LET round(prevL) == After(prevL, feistelBackward(prevL, L, keys, i - 1, maskL))
    IN  IF i < 1 THEN <<L, R>>
        ELSE round(BigXor(R, BigAnd(feistelF(U32(R), keys[i]), maskL)))

\* feistelUnpermute(x, keys, bits)
feistelUnpermute(x, keys, bits) ==
    LET joined(LR, half) == After(LR, BigOr(Shl64(LR[1], half), LR[2]))
        begun(L, R, half, maskL) ==
            After(<<L, R>>, joined(feistelBackward(L, R, keys, Len(keys), maskL), half))
        rounds(half, maskL, maskR) ==
            After(<<maskL, maskR>>,
                  begun(BigAnd(BigShr(x, half), maskL), BigAnd(x, maskR), half, maskL))
        halves(half) == rounds(half, lowBits(bits - half), lowBits(half))
    IN  halves(bits \div 2)

\* The loops below are written as the composition of their iterations: the
\* iterations lo..hi applied to the state st are the iterations of the second
\* half applied to what the first half leaves.

\* indexToCombo.  The state of its loop is [idx, pieces], where pieces holds
\* the positions filled so far, the last ones of the slice; the t-th iteration
\* (t = 1..adjectivesCount) fills position adjectivesCount + 1 - t, the one
\* before them.
RECURSIVE comboLoop(_, _, _, _, _)
comboLoop(baseA, adjectives, lo, hi, st) ==
    LET filled(qr)   == [idx |-> qr[1], pieces |-> <<adjectives[Small(qr[2]) + 1]>> \o st.pieces]
        second(half) == After(half, comboLoop(baseA, adjectives, (lo + hi) \div 2 + 1, hi, half))
    IN  IF lo > hi THEN st
        ELSE IF lo = hi THEN filled(BigDivMod(st.idx, Big(baseA)))
        ELSE second(comboLoop(baseA, adjectives, lo, (lo + hi) \div 2, st))
\* indexToCombo taking the adjectives' digits before the noun's.
indexToComboNounLast(idx, baseA, baseN, adjectivesCount, adjectives, nouns) ==
    LET filled == comboLoop(baseA, adjectives, 1, adjectivesCount,
                            [idx |-> idx, pieces |-> << >>])
    IN  After(filled, filled.pieces \o <<nouns[Small(BigMod(filled.idx, Big(baseN))) + 1]>>)
indexToCombo(idx, baseA, baseN, adjectivesCount, adjectives, nouns) ==
    LET adjectived(qr) ==
            After(qr, comboLoop(baseA, adjectives, 1, adjectivesCount,
                                [idx |-> qr[1], pieces |-> <<nouns[Small(qr[2]) + 1]>>]).pieces)
    IN  adjectived(BigDivMod(idx, Big(baseN)))

\* comboToIndex: [err, idx]; err is "" on success.  The state of its loop is
\* [err, idx]; an iteration after the failing one changes nothing.
RECURSIVE adjectiveLoop(_, _, _, _, _, _)
adjectiveLoop(pieces, baseA, adjIndexMap, lo, hi, st) ==
    LET second(half) == After(half, adjectiveLoop(pieces, baseA, adjIndexMap,
                                                  (lo + hi) \div 2 + 1, hi, half))
    IN  IF lo > hi \/ st.err # "" THEN st
        ELSE IF lo = hi
        THEN IF pieces[lo] \notin DOMAIN adjIndexMap
             THEN [err |-> "adjective not found", idx |-> << >>]
             ELSE [err |-> "",
                   idx |-> Add64(Mul64(st.idx, Big(baseA)), Big(adjIndexMap[pieces[lo]]))]
        ELSE second(adjectiveLoop(pieces, baseA, adjIndexMap, lo, (lo + hi) \div 2, st))
\* comboToIndex reading the noun's position without looking at ok: a
\* missing key of a Go map reads as 0.
comboToIndexNounUnchecked(pieces, baseA, baseN, adjectivesCount, adjIndexMap, nounIndexMap) ==
    LET nouned(adj) ==
            IF adj.err # "" THEN adj
            ELSE [err |-> "",
                  idx |-> Add64(Mul64(adj.idx, Big(baseN)),
                                Big(IF pieces[adjectivesCount + 1] \in DOMAIN nounIndexMap
                                    THEN nounIndexMap[pieces[adjectivesCount + 1]] ELSE 0))]
    IN  nouned(adjectiveLoop(pieces, baseA, adjIndexMap, 1, adjectivesCount,
                             [err |-> "", idx |-> << >>]))
\* comboToIndex adding the noun's position without the multiplication by
\* baseN.
comboToIndexUnscaled(pieces, baseA, baseN, adjectivesCount, adjIndexMap, nounIndexMap) ==
    LET nouned(adj) ==
            IF adj.err # "" THEN adj
            ELSE IF pieces[adjectivesCount + 1] \notin DOMAIN nounIndexMap
            THEN [err |-> "noun not found", idx |-> << >>]
            ELSE [err |-> "",
                  idx |-> Add64(adj.idx, Big(nounIndexMap[pieces[adjectivesCount + 1]]))]
    IN  nouned(adjectiveLoop(pieces, baseA, adjIndexMap, 1, adjectivesCount,
                             [err |-> "", idx |-> << >>]))
comboToIndex(pieces, baseA, baseN, adjectivesCount, adjIndexMap, nounIndexMap) ==
    LET nouned(adj) ==
            IF adj.err # "" THEN adj
            ELSE IF pieces[adjectivesCount + 1] \notin DOMAIN nounIndexMap
            THEN [err |-> "noun not found", idx |-> << >>]
            ELSE [err |-> "",
                  idx |-> Add64(Mul64(adj.idx, Big(baseN)),
                                Big(nounIndexMap[pieces[adjectivesCount + 1]]))]
    IN  nouned(adjectiveLoop(pieces, baseA, adjIndexMap, 1, adjectivesCount,
                             [err |-> "", idx |-> << >>]))

\* xxteaEncrypt64(v, key): 32 rounds on the two 32-bit halves of v.  A uint32 is
\* held here as its two 16-bit halves <<low, high>>.  In Go the operators + and ^
\* have the same precedence and associate to the left.
Word32(a) == <<LimbAt(a, 1), LimbAt(a, 2)>>
w32Add(a, b) ==
    LET lo == a[1] + b[1]
    IN  <<lo % LimbBase, (a[2] + b[2] + (lo \div LimbBase)) % LimbBase>>
w32Xor(a, b) == <<XorInt(a[1], b[1]), XorInt(a[2], b[2])>>
w32Shl4(a) == <<(a[1] * 16) % LimbBase, (a[2] * 16 + (a[1] \div 2^12)) % LimbBase>>
w32Shr5(a) == <<(a[1] \div 32) + (a[2] % 32) * 2^11, a[2] \div 32>>

xxteaDelta == <<31161, 40503>>                                \* 0x9e3779b9
xxteaMix(a, b, sum, keyWord) ==
    \* a += ((b << 4) ^ (b >> 5)) + b ^ (sum + keyWord)
    w32Add(a, w32Xor(w32Add(w32Xor(w32Shl4(b), w32Shr5(b)), b), w32Add(sum, keyWord)))

\* The loop of xxteaEncrypt64: n more rounds on st = <<v0, v1, sum>>, as the
\* first half of them followed by the rest.
RECURSIVE xxteaRounds(_, _, _)
xxteaRounds(st, key, n) ==
    LET second(prev, sum, w0) ==
            <<w0, xxteaMix(prev[2], w0, sum, Word32(key[((sum[1] \div 2^11) % 4) + 1])), sum>>
        first(prev, sum) ==
            second(prev, sum, xxteaMix(prev[1], prev[2], sum, Word32(key[(sum[1] % 4) + 1])))
        rest(half) == After(half, xxteaRounds(half, key, n - (n \div 2)))
    IN  IF n = 0 THEN st
        ELSE IF n = 1 THEN first(st, w32Add(st[3], xxteaDelta))
        ELSE rest(xxteaRounds(st, key, n \div 2))
xxteaCipher(v, key) ==
    LET joined(out) == Norm(out[1] \o out[2])
    IN  joined(xxteaRounds(<<Word32(v), <<LimbAt(v, 3), LimbAt(v, 4)>>, <<0, 0>>>>, key, 32))

\* The default public key of Load, and the cipher under it for the first
\* MaxSearch numbers, computed once: DecodeFromScrambled asks for these values
\* again on every call.
defaultXxteaKey == <<<<22136, 4660>>, <<57072, 39612>>, <<52137, 4077>>, <<17185, 34661>>>>
MaxSearch == 800
RECURSIVE xxteaRange(_, _)
xxteaRange(lo, hi) ==
    \* <<the cipher of lo, ..., the cipher of hi>>
    IF lo > hi THEN << >>
    ELSE IF lo = hi THEN <<xxteaCipher(Big(lo), defaultXxteaKey)>>
    ELSE xxteaRange(lo, (lo + hi) \div 2) \o xxteaRange((lo + hi) \div 2 + 1, hi)
xxteaTable == xxteaRange(0, MaxSearch - 1)
xxteaEncrypt64(v, key) ==
    IF key = defaultXxteaKey /\ FitsSmall(v) /\ Small(v) < MaxSearch
    THEN xxteaTable[Small(v) + 1] ELSE xxteaCipher(v, key)


\* ------------------------------------------------------------------------
\* Generator
\* ------------------------------------------------------------------------
ErrAdjectiveCount  == "must use at least 1 adjective"
ErrEmptyList       == "adjective or noun list is empty"
ErrCombinations    == "adjective count is too high or lists are empty, or combinations overflowed uint64"
ErrIndexBounds     == "index out of bounds"
ADJECTIVES_FILE_NOT_FOUND == "adjectives file not found"
NOUNS_FILE_NOT_FOUND      == "nouns file not found"
GENERATOR_NOT_LOADED  == "the generator data is not loaded"
INVALID_PIECES_LENGTH == "ID must have at least one adjective and one noun"
ErrDecodeCombinations == "could not calculate combinations for decoding"
ErrDecodedRange    == "decoded value out of range"
ErrNotFound        == "could not decode scrambled value"

\* The words of a file: lower-cased, trimmed, kept when they match the regexp,
\* duplicates removed.
RECURSIVE filterWords(_)
filterWords(lines) ==
    IF lines = << >> THEN << >>
    ELSE LET init == filterWords(SubSeq(lines, 1, Len(lines) - 1))
             processedWord == TrimSpace(ToLower(lines[Len(lines)]))
         IN  IF alphaNumRegex(processedWord) THEN Append(init, processedWord) ELSE init

\* A slice after r.Shuffle: order is a permutation of its positions.
shuffled(words, order) == [i \in 1..Len(words) |-> words[order[i]]]
indexMap(words) ==
    [w \in {words[i] : i \in 1..Len(words)} |-> (CHOOSE i \in 1..Len(words) : words[i] = w) - 1]

\* Load: [gen, err].  adjFile and nounFile are what os.ReadFile returns for
\* adjectives.txt and nouns.txt, [lines, err]: the lines of the file, or the
\* error of a file that cannot be read.  With an error Load returns it and no
\* Generator (nil, here the record of the empty fields); otherwise the
\* Generator built from the lines of the two files, the two orders the seeded
\* source shuffles them into and the round keys it then yields.
Load(adjFile, nounFile, adjOrder, nounOrder, keys, xxteaKey) ==
    LET none(e) ==
            [gen |-> [adjectives |-> << >>, nouns |-> << >>, baseA |-> 0, baseN |-> 0,
                      maxCombinations |-> << >>, roundKeys |-> << >>,
                      adjIndexMap |-> << >>, nounIndexMap |-> << >>, xxteaKey |-> << >>],
             err |-> e]
        built(adjectives, nouns, shuffledAdjectives, shuffledNouns) ==
            [gen |-> [adjectives      |-> shuffledAdjectives,
                      nouns           |-> shuffledNouns,
                      baseA           |-> Len(adjectives),
                      baseN           |-> Len(nouns),
                      maxCombinations |-> << >>,
                      roundKeys       |-> SubSeq(keys, 1, feistelRounds),
                      adjIndexMap     |-> indexMap(shuffledAdjectives),
                      nounIndexMap    |-> indexMap(shuffledNouns),
                      xxteaKey        |-> xxteaKey],
             err |-> ""]
        filtered(adjectives, nouns) ==
            built(adjectives, nouns, shuffled(adjectives, adjOrder), shuffled(nouns, nounOrder))
    IN  IF adjFile.err THEN none(ADJECTIVES_FILE_NOT_FOUND)
        ELSE IF nounFile.err THEN none(NOUNS_FILE_NOT_FOUND)
        ELSE filtered(unique(filterWords(adjFile.lines)), unique(filterWords(nounFile.lines)))

\* The loop of MaxCombinations, iterations lo..hi: the state is
\* [overflow, combos], and after the overflow no iteration runs.  limit is
\* (1<<64 - 1) / baseA.
RECURSIVE combosLoop(_, _, _, _, _)
combosLoop(baseA, limit, lo, hi, st) ==
    LET second(half) == After(half, combosLoop(baseA, limit, (lo + hi) \div 2 + 1, hi, half))
    IN  IF lo > hi \/ st.overflow THEN st
        ELSE IF lo = hi
        THEN IF BigLess(limit, st.combos)
             THEN [overflow |-> TRUE, combos |-> << >>]
             ELSE [overflow |-> FALSE, combos |-> Mul64(st.combos, Big(baseA))]
        ELSE second(combosLoop(baseA, limit, lo, (lo + hi) \div 2, st))

\* MaxCombinations without its two overflow checks: the products wrap.
MaxCombinationsWrapping(gen, adjectivesCount) ==
    LET none(pan) == [gen |-> gen, val |-> << >>, panic |-> pan]
        stored(combos) ==
            [gen   |-> [gen EXCEPT !.maxCombinations =
                           [n \in DOMAIN @ \cup {adjectivesCount} |->
                               IF n = adjectivesCount THEN combos ELSE @[n]]],
             val   |-> combos,
             panic |-> FALSE]
    IN  IF adjectivesCount < 1 THEN none(FALSE)
        ELSE IF adjectivesCount \in DOMAIN gen.maxCombinations
        THEN [gen |-> gen, val |-> gen.maxCombinations[adjectivesCount], panic |-> FALSE]
        ELSE IF gen.baseA = 0 \/ gen.baseN = 0 THEN none(TRUE)
        ELSE stored(Mul64(Wrap(BigPow(Big(gen.baseA), adjectivesCount), 4), Big(gen.baseN)))

\* MaxCombinations keeping one entry only: the assignment replaces the map.
MaxCombinationsOneEntry(gen, adjectivesCount) ==
    LET none(pan) == [gen |-> gen, val |-> << >>, panic |-> pan]
        stored(combos) ==
            [gen   |-> [gen EXCEPT !.maxCombinations =
                           [n \in {adjectivesCount} |-> combos]],
             val   |-> combos,
             panic |-> FALSE]
        looped(loop) ==
            IF loop.overflow THEN none(FALSE)
            ELSE IF gen.baseN = 0 THEN none(TRUE)
            ELSE IF BigLess(BigDiv(MaxUint64, Big(gen.baseN)), loop.combos) THEN none(FALSE)
            ELSE stored(Mul64(loop.combos, Big(gen.baseN)))
        limited(limit) ==
            After(limit, looped(combosLoop(gen.baseA, limit, 1, adjectivesCount,
                                           [overflow |-> FALSE, combos |-> <<1>>])))
    IN  IF adjectivesCount < 1 THEN none(FALSE)
        ELSE IF adjectivesCount \in DOMAIN gen.maxCombinations
        THEN [gen |-> gen, val |-> gen.maxCombinations[adjectivesCount], panic |-> FALSE]
        ELSE IF gen.baseA = 0 THEN none(TRUE)
        ELSE limited(BigDiv(MaxUint64, Big(gen.baseA)))

\* MaxCombinations: [gen, val, panic].  gen is the generator afterwards (the
\* cache may have gained an entry); panic is the integer division by zero.
MaxCombinations(gen, adjectivesCount) ==
    LET none(pan) == [gen |-> gen, val |-> << >>, panic |-> pan]
        stored(combos) ==
            [gen   |-> [gen EXCEPT !.maxCombinations =
                           [n \in DOMAIN @ \cup {adjectivesCount} |->
                               IF n = adjectivesCount THEN combos ELSE @[n]]],
             val   |-> combos,
             panic |-> FALSE]
        looped(loop) ==
            IF loop.overflow THEN none(FALSE)
            ELSE IF gen.baseN = 0 THEN none(TRUE)
            ELSE IF BigLess(BigDiv(MaxUint64, Big(gen.baseN)), loop.combos) THEN none(FALSE)
            ELSE stored(Mul64(loop.combos, Big(gen.baseN)))
        limited(limit) ==
            After(limit, looped(combosLoop(gen.baseA, limit, 1, adjectivesCount,
                                           [overflow |-> FALSE, combos |-> <<1>>])))
    IN  IF adjectivesCount < 1 THEN none(FALSE)
        ELSE IF adjectivesCount \in DOMAIN gen.maxCombinations
        THEN [gen |-> gen, val |-> gen.maxCombinations[adjectivesCount], panic |-> FALSE]
        ELSE IF gen.baseA = 0 THEN none(TRUE)
        ELSE limited(BigDiv(MaxUint64, Big(gen.baseA)))

\* render writing the suffix whatever its value.
renderEverySuffix(gen, scrambled, baseCombos, adjectivesCount) ==
    LET written(result, suffix) == result \o <<"-">> \o Itoa(suffix)
        joined(pieces) == After(pieces, Join(pieces))
        divided(qr) ==
            written(joined(indexToCombo(qr[2], gen.baseA, gen.baseN, adjectivesCount,
                                        gen.adjectives, gen.nouns)), qr[1])
    IN  divided(BigDivMod(scrambled, baseCombos))

\* The string Encode and EncodeScrambled build from the scrambled number:
\* suffix is scrambled / baseCombos and comboIdx is scrambled % baseCombos.
render(gen, scrambled, baseCombos, adjectivesCount) ==
    LET written(result, suffix) ==
            IF IntIsPositive(suffix) THEN result \o <<"-">> \o Itoa(suffix) ELSE result
        joined(pieces) == After(pieces, Join(pieces))
        divided(qr) ==
            written(joined(indexToCombo(qr[2], gen.baseA, gen.baseN, adjectivesCount,
                                        gen.adjectives, gen.nouns)), qr[1])
    IN  divided(BigDivMod(scrambled, baseCombos))

\* Encode without the test of the power of two: every index is permuted.
EncodeUngated(gen, index, adjectivesCount) ==
    LET fail(e, gn) == [gen |-> gn, id |-> << >>, err |-> e, panic |-> FALSE]
        issued(gn, scrambled, baseCombos) ==
            After(scrambled,
                  [gen   |-> gn,
                   id    |-> render(gen, scrambled, baseCombos, adjectivesCount),
                   err   |-> "",
                   panic |-> FALSE])
        ranged(mc, maxIndex) ==
            IF BigLeq(maxIndex, index) THEN fail(ErrIndexBounds, mc.gen)
            ELSE issued(mc.gen,
                        feistelPermute(index, gen.roundKeys, bitsNeeded(Sub64(maxIndex, <<1>>))),
                        mc.val)
        counted(mc) ==
            IF mc.val = << >> THEN fail(ErrCombinations, mc.gen)
            ELSE ranged(mc, Mul64(mc.val, Big(SuffixSpace)))
    IN  IF adjectivesCount < 1 THEN fail(ErrAdjectiveCount, gen)
        ELSE IF gen.baseA = 0 \/ gen.baseN = 0 THEN fail(ErrEmptyList, gen)
        ELSE counted(MaxCombinations(gen, adjectivesCount))

\* Encode: [gen, id, err, panic].
Encode(gen, index, adjectivesCount) ==
    LET fail(e, gn) == [gen |-> gn, id |-> << >>, err |-> e, panic |-> FALSE]
        issued(gn, scrambled, baseCombos) ==
            After(scrambled,
                  [gen   |-> gn,
                   id    |-> render(gen, scrambled, baseCombos, adjectivesCount),
                   err   |-> "",
                   panic |-> FALSE])
        ranged(mc, maxIndex) ==
            IF BigLeq(maxIndex, index) THEN fail(ErrIndexBounds, mc.gen)
            ELSE issued(mc.gen,
                        IF isPowerOfTwo(maxIndex)
                        THEN feistelPermute(index, gen.roundKeys,
                                            bitsNeeded(Sub64(maxIndex, <<1>>)))
                        ELSE index,
                        mc.val)
        counted(mc) ==
            IF mc.val = << >> THEN fail(ErrCombinations, mc.gen)
            ELSE ranged(mc, Mul64(mc.val, Big(SuffixSpace)))
    IN  IF adjectivesCount < 1 THEN fail(ErrAdjectiveCount, gen)
        ELSE IF gen.baseA = 0 \/ gen.baseN = 0 THEN fail(ErrEmptyList, gen)
        ELSE counted(MaxCombinations(gen, adjectivesCount))

\* EncodeScrambled: [gen, id, err, panic].
EncodeScrambled(gen, i, adjectivesCount) ==
    LET fail(e, gn) == [gen |-> gn, id |-> << >>, err |-> e, panic |-> FALSE]
        issued(gn, scrambled, baseCombos) ==
            After(scrambled,
                  [gen   |-> gn,
                   id    |-> render(gen, scrambled, baseCombos, adjectivesCount),
                   err   |-> "",
                   panic |-> FALSE])
        ranged(mc, maxIndex) ==
            IF BigLeq(maxIndex, i) THEN fail(ErrIndexBounds, mc.gen)
            ELSE issued(mc.gen, BigMod(xxteaEncrypt64(i, gen.xxteaKey), maxIndex), mc.val)
        counted(mc) ==
            IF mc.val = << >> THEN fail(ErrCombinations, mc.gen)
            ELSE ranged(mc, Mul64(mc.val, Big(SuffixSpace)))
    IN  IF adjectivesCount < 1 THEN fail(ErrAdjectiveCount, gen)
        ELSE IF gen.baseA = 0 \/ gen.baseN = 0 THEN fail(ErrEmptyList, gen)
        ELSE counted(MaxCombinations(gen, adjectivesCount))

\* What Decode and DecodeFromScrambled do alike once the suffix is taken off,
\* from the count of the adjectives to the range check: [gen, err, panic,
\* nounIsValid, suffix, adjectivesCount, baseCombos, maxIndex, scrambled].
\* parts is the slice after the suffix is taken off.
parseWords(gen, nounIsValid, suffix, parts) ==
    LET stop(e, gn, pan) ==
            [gen |-> gn, err |-> e, panic |-> pan, nounIsValid |-> nounIsValid,
             suffix |-> suffix, adjectivesCount |-> Len(parts) - 1,
             baseCombos |-> << >>, maxIndex |-> << >>, scrambled |-> << >>]
        ranged(mc, maxIndex, scrambled) ==
            IF BigLeq(maxIndex, scrambled) THEN stop(ErrDecodedRange, mc.gen, FALSE)
            ELSE [gen |-> mc.gen, err |-> "", panic |-> FALSE, nounIsValid |-> nounIsValid,
                  suffix |-> suffix, adjectivesCount |-> Len(parts) - 1,
                  baseCombos |-> mc.val, maxIndex |-> maxIndex, scrambled |-> scrambled]
        indexed(mc, combo) ==
            IF combo.err # "" THEN stop(combo.err, mc.gen, FALSE)
            ELSE ranged(mc, Mul64(mc.val, Big(SuffixSpace)),
                        Add64(Mul64(suffix, mc.val), combo.idx))
        counted(mc) ==
            IF mc.panic THEN stop("panic", gen, TRUE)
            ELSE IF mc.val = << >> THEN stop(ErrDecodeCombinations, mc.gen, FALSE)
            ELSE indexed(mc, comboToIndex(parts, gen.baseA, gen.baseN, Len(parts) - 1,
                                          gen.adjIndexMap, gen.nounIndexMap))
    IN  IF Len(parts) - 1 < 1 THEN stop(INVALID_PIECES_LENGTH, gen, FALSE)
        ELSE counted(MaxCombinations(gen, Len(parts) - 1))

\* parse trying the last token as a number before looking it up as a noun.
parseNumberFirst(gen, input) ==
    LET suffixed(parts, nounIsValid, isSuffix, number) ==
            parseWords(gen, nounIsValid, IF isSuffix THEN number.mag ELSE << >>,
                       IF isSuffix THEN SubSeq(parts, 1, Len(parts) - 1) ELSE parts)
        numbered(parts, nounIsValid, number) ==
            suffixed(parts, nounIsValid,
                     number.ok /\ (~number.neg \/ number.mag = << >>), number)
        split(parts) ==
            IF Len(parts) < 2
            THEN [gen |-> gen, err |-> INVALID_PIECES_LENGTH, panic |-> FALSE,
                  nounIsValid |-> FALSE, suffix |-> << >>, adjectivesCount |-> 0,
                  baseCombos |-> << >>, maxIndex |-> << >>, scrambled |-> << >>]
            ELSE numbered(parts, parts[Len(parts)] \in DOMAIN gen.nounIndexMap,
                          Atoi(parts[Len(parts)]))
    IN  split(Split(input))

\* What Decode and DecodeFromScrambled do alike, from the split of the input to
\* the range check.  The last token is a suffix when it is not a noun and
\* strconv.Atoi reads it as a number that is not negative.
parse(gen, input) ==
    LET suffixed(parts, nounIsValid, isSuffix, number) ==
            parseWords(gen, nounIsValid, IF isSuffix THEN number.mag ELSE << >>,
                       IF isSuffix THEN SubSeq(parts, 1, Len(parts) - 1) ELSE parts)
        numbered(parts, nounIsValid, number) ==
            suffixed(parts, nounIsValid,
                     ~nounIsValid /\ number.ok /\ (~number.neg \/ number.mag = << >>), number)
        split(parts) ==
            IF Len(parts) < 2
            THEN [gen |-> gen, err |-> INVALID_PIECES_LENGTH, panic |-> FALSE,
                  nounIsValid |-> FALSE, suffix |-> << >>, adjectivesCount |-> 0,
                  baseCombos |-> << >>, maxIndex |-> << >>, scrambled |-> << >>]
            ELSE numbered(parts, parts[Len(parts)] \in DOMAIN gen.nounIndexMap,
                          Atoi(parts[Len(parts)]))
    IN  split(Split(input))

\* Decode: [gen, val, err, panic, parsed].
Decode(gen, input) ==
    LET returned(p, idx) ==
            [gen |-> p.gen, val |-> IF p.err = "" THEN idx ELSE << >>, err |-> p.err,
             panic |-> p.panic,
             parsed |-> [nounIsValid |-> p.nounIsValid, suffix |-> p.suffix,
                         adjectivesCount |-> p.adjectivesCount]]
        parsed(p) ==
            After(p, returned(p, IF isPowerOfTwo(p.maxIndex)
                                 THEN feistelUnpermute(p.scrambled, gen.roundKeys,
                                                       bitsNeeded(Sub64(p.maxIndex, <<1>>)))
                                 ELSE p.scrambled))
    IN  IF gen.baseA = 0 \/ gen.baseN = 0
        THEN [gen |-> gen, val |-> << >>, err |-> GENERATOR_NOT_LOADED, panic |-> FALSE,
              parsed |-> [nounIsValid |-> FALSE, suffix |-> << >>, adjectivesCount |-> 0]]
        ELSE parsed(parse(gen, input))

\* matches comparing the cipher itself, not reduced, with the scrambled number.
matchesUnreduced(gen, i, maxIndex, scrambled) ==
    xxteaEncrypt64(i, gen.xxteaKey) = scrambled

\* The test of the search loop, xxteaEncrypt64(i, g.xxteaKey)%maxIndex == scrambled
matches(gen, i, maxIndex, scrambled) ==
    BigMod(xxteaEncrypt64(i, gen.xxteaKey), maxIndex) = scrambled

\* DecodeFromScrambled: [gen, val, err, panic, parsed, searched].  The loop
\* returns the first i below maxIndex whose cipher, reduced, is the scrambled
\* number.  searched tells whether the loop was followed to its end: it is, when
\* maxIndex is at most MaxSearch.
DecodeFromScrambled(gen, humanID) ==
    LET returned(p, searched, hits) ==
            [gen |-> p.gen,
             val |-> IF p.err = "" /\ hits # {}
                     THEN Big(CHOOSE i \in hits : \A j \in hits : i <= j) ELSE << >>,
             err |-> IF p.err = "" /\ hits = {} THEN ErrNotFound ELSE p.err,
             panic |-> p.panic,
             parsed |-> [nounIsValid |-> p.nounIsValid, suffix |-> p.suffix,
                         adjectivesCount |-> p.adjectivesCount],
             searched |-> searched]
        loop(p, searched) ==
            returned(p, searched,
                     IF p.err = "" /\ searched
                     THEN {i \in 0..(Small(p.maxIndex) - 1) :
                             matches(gen, Big(i), p.maxIndex, p.scrambled)}
                     ELSE {})
        parsed(p) == After(p, loop(p, p.err = "" => BigLeq(p.maxIndex, Big(MaxSearch))))
    IN  parsed(parse(gen, humanID))

\* ------------------------------------------------------------------------
\* Encode of the version of the generator without a cipher (humanreadable.go)
\* ------------------------------------------------------------------------
\* Encode of that version on the lists and the cache of gen: [id, err].  The
\* total of the combinations is clamped to 1<<64 - 1 where baseCombos * 100
\* overflows, and the index is then not checked; the words and the suffix are
\* those of the index itself.
plainEncode(gen, index, adjectivesCount) ==
    LET fail(e) == [id |-> << >>, err |-> e]
        ranged(baseCombos, maxTotalCombos) ==
            IF BigLeq(maxTotalCombos, index) /\ maxTotalCombos # MaxUint64
            THEN fail(ErrIndexBounds)
            ELSE [id |-> render(gen, index, baseCombos, adjectivesCount), err |-> ""]
        counted(baseCombos) ==
            IF baseCombos = << >> THEN fail(ErrCombinations)
            ELSE ranged(baseCombos,
                        IF BigLess(BigDiv(MaxUint64, Big(SuffixSpace)), baseCombos)
                        THEN MaxUint64 ELSE Mul64(baseCombos, Big(SuffixSpace)))
    IN  IF adjectivesCount < 1 THEN fail(ErrAdjectiveCount)
        ELSE IF gen.baseA = 0 \/ gen.baseN = 0 THEN fail(ErrEmptyList)
        ELSE counted(MaxCombinations(gen, adjectivesCount).val)

\* ------------------------------------------------------------------------
\* The word files, the seeds and the calls of the model
\* ------------------------------------------------------------------------
quick == <<"q", "u", "i", "c", "k">>
slow  == <<"s", "l", "o", "w">>
fox   == <<"f", "o", "x">>
dog   == <<"d", "o", "g">>
cat   == <<"c", "a", "t">>
wordA == <<"a">>
wordX == <<"x">>
wordB == <<"b">>
wordC == <<"c">>
word7 == <<"7">>

\* What os.ReadFile returns for adjectives.txt and nouns.txt: the lines of the
\* file, or an error.  The first lists have upper-case letters inside and outside
\* ASCII, blanks of several kinds around a word, a blank inside a line, an
\* empty line and words that occur twice.
WordFiles ==
    { [adjectives |-> [err |-> FALSE,
                       lines |-> <<<<"Q", "u", "i", "c", "k">>,
                                   <<" ", "\f", "s", "l", "o", "w", " ", "\r">>,
                                   <<"É", "t", "é">>,
                                   <<"\t", "q", "u", "i", "c", "U+212A", "U+3000">>,
                                   << >>>>],
       nouns      |-> [err |-> FALSE,
                       lines |-> <<fox, dog, <<"t", "w", "o", " ", "w", "o", "r", "d", "s">>,
                                   cat, fox>>]],
      [adjectives |-> [err |-> FALSE, lines |-> <<wordA, wordX, wordB, wordC>>],
       nouns      |-> [err |-> FALSE, lines |-> <<wordX, word7>>]],
      [adjectives |-> [err |-> FALSE, lines |-> <<wordA>>],
       nouns      |-> [err |-> FALSE, lines |-> <<<< >>, <<"-">>>>]],
      [adjectives |-> [err |-> TRUE, lines |-> << >>],
       nouns      |-> [err |-> FALSE, lines |-> <<wordX>>]],
      [adjectives |-> [err |-> FALSE, lines |-> <<wordA>>],
       nouns      |-> [err |-> TRUE, lines |-> << >>]] }

\* What a seed decides: the order of each shuffled list ("keep", or "reverse")
\* and the four round keys.
shuffleOrder(shuffle, n) == [i \in 1..n |-> IF shuffle = "keep" THEN i ELSE n + 1 - i]
RoundKeys == { << <<39612, 57072, 4660, 22136>>, <<1, 0, 65535, 32768>>,
                  <<4077, 52137>>, <<65535, 65535, 65535, 65535>> >> }

MaxIndex == 2
AdjCounts == {0, 1, 30, 63, 64}
\* Indices where a suffix starts, where the cipher collides, where a suffix
\* meets a numeric noun, and at the end of a domain.
EdgeIndices == {6, 16, 56, 323, 600}
WideIndices ==
    { Add64(Shl64(<<3>>, 30), Big(1000003)), Shl64(<<1>>, 62), Shl64(<<1>>, 63), MaxUint64 }
\* An adjective count whose product fits 64 bits for two adjectives and three
\* nouns (3 * 2^60) while 100 times the product wraps, to 12 * 2^60, which is
\* not a power of two; an index below the wrapped product and one above it.
WrappingCalls == {<<Shl64(<<1>>, 63), 60>>, <<Shl64(<<13>>, 60), 60>>}
SmallCalls == {<<Big(i), 1>> : i \in (0..MaxIndex) \cup EdgeIndices}
EncodeCalls ==
    SmallCalls \cup {<<<< >>, k>> : k \in AdjCounts} \cup {<<i, 30>> : i \in WideIndices}
        \cup WrappingCalls
ScrambledCalls == SmallCalls \cup {<<<< >>, 0>>, <<<< >>, 30>>}

\* The number of tokens of the longest hand-written string: one more than an
\* adjective count whose combinations overflow for every list of two words.
ManyTokens == 65
\* Strings a caller hands to Decode: well-formed IDs, IDs with every kind of
\* trailing number, and malformed ones.
HandWritten ==
    { Join(<<quick, fox>>), Join(<<quick, fox, <<"1">>>>), Join(<<quick, fox, <<"0">>>>),
      Join(<<quick, fox, <<"1", "0", "0">>>>), Join(<<quick, fox, <<"0", "0", "7">>>>),
      Join(<<quick, fox, <<"3", "0", "7", "4", "4", "5", "7", "3", "4", "5", "6", "1", "8", "2", "5", "8", "6", "0", "3">>>>), Join(<<quick, fox, <<"9", "2", "2", "3", "3", "7", "2", "0", "3", "6", "8", "5", "4", "7", "7", "5", "8", "0", "8">>>>),
      Join(<<quick, <<"b", "i", "r", "d">>>>), Join(<<quick, <<"5">>>>), fox,
      Join(<<wordA, word7>>), Join(<<wordA, wordX, word7>>),
      Join([t \in 1..(ManyTokens) |-> <<"z">>]) }
\* The ones handed to DecodeFromScrambled as well.
HandWrittenScrambled ==
    { Join(<<quick, fox, <<"1">>>>), Join(<<quick, fox, <<"1", "0", "0">>>>), fox, Join(<<wordA, word7>>) }

NoParse  == [nounIsValid |-> FALSE, suffix |-> << >>, adjectivesCount |-> 0]
NoIssuer == [op |-> "", index |-> << >>, adjectivesCount |-> 0]

\* Goroutines sharing one Generator, and the calls they make.
Goroutines == {1, 2}
PrecomputeCounts == {1, 30}
ConcurrentCalls ==
    { [op |-> "Encode", index |-> <<6>>, adjectivesCount |-> 1, input |-> << >>],
      [op |-> "Encode", index |-> << >>, adjectivesCount |-> 30, input |-> << >>],
      [op |-> "EncodeScrambled", index |-> <<1>>, adjectivesCount |-> 1, input |-> << >>],
      [op |-> "Decode", index |-> << >>, adjectivesCount |-> 0,
       input |-> Join(<<quick, fox, <<"1">>>>)],
      [op |-> "Decode", index |-> << >>, adjectivesCount |-> 0,
       input |-> Join(<<wordA, word7>>)],
      [op |-> "DecodeFromScrambled", index |-> << >>, adjectivesCount |-> 0,
       input |-> Join(<<quick, fox, <<"1">>>>)],
      [op |-> "MaxCombinations", index |-> << >>, adjectivesCount |-> 1, input |-> << >>] }
\* A goroutine outside a call.  pc is "idle", then "called" (in the call,
\* before it reaches MaxCombinations), "store" (MaxCombinations has computed a
\* value that was not in the map), "storing" (in the map assignment), "done".
Idle ==
    [pc   |-> "idle",
     call |-> [op |-> "", index |-> << >>, adjectivesCount |-> 0, input |-> << >>],
     res  |-> [id |-> << >>, val |-> << >>, err |-> "", panic |-> FALSE],
     put  |-> << >>]

\* The call c on the generator gen: [gen, res, used].  used is the set of the
\* adjective counts the call looks up in the map of MaxCombinations.
invoke(gen, c) ==
    LET loaded == gen.baseA # 0 /\ gen.baseN # 0
        encoded(r) ==
            [gen  |-> r.gen,
             res  |-> [id |-> r.id, val |-> << >>, err |-> r.err, panic |-> r.panic],
             used |-> IF c.adjectivesCount >= 1 /\ loaded THEN {c.adjectivesCount} ELSE {}]
        decoded(r) ==
            [gen  |-> r.gen,
             res  |-> [id |-> << >>, val |-> r.val, err |-> r.err, panic |-> r.panic],
             used |-> IF r.parsed.adjectivesCount >= 1 /\ loaded
                      THEN {r.parsed.adjectivesCount} ELSE {}]
        searched(r) ==
            [gen  |-> r.gen,
             res  |-> [id |-> << >>, val |-> r.val, err |-> r.err, panic |-> r.panic],
             used |-> IF r.parsed.adjectivesCount >= 1
                      THEN {r.parsed.adjectivesCount} ELSE {}]
        counted(r) ==
            [gen  |-> r.gen,
             res  |-> [id |-> << >>, val |-> r.val, err |-> "", panic |-> r.panic],
             used |-> IF c.adjectivesCount >= 1 THEN {c.adjectivesCount} ELSE {}]
    IN  IF c.op = "Encode" THEN encoded(Encode(gen, c.index, c.adjectivesCount))
        ELSE IF c.op = "MaxCombinations" THEN counted(MaxCombinations(gen, c.adjectivesCount))
        ELSE IF c.op = "DecodeFromScrambled" THEN searched(DecodeFromScrambled(gen, c.input))
        ELSE IF c.op = "EncodeScrambled"
        THEN encoded(EncodeScrambled(gen, c.index, c.adjectivesCount))
        ELSE decoded(Decode(gen, c.input))

\* stores of a MaxCombinations that keeps nothing.
storesNothing(gen, r) == << >>

\* stores that assigns on a hit as well.
storesOnHit(gen, r) ==
    [n \in r.used \cap DOMAIN r.gen.maxCombinations |-> r.gen.maxCombinations[n]]

\* The map assignment of the call that returned r on gen: the entry that
\* MaxCombinations computed because the map did not hold it, if any.
stores(gen, r) ==
    [n \in DOMAIN r.gen.maxCombinations \ DOMAIN gen.maxCombinations |->
        r.gen.maxCombinations[n]]

\* The adjective counts indexToCombo and comboToIndex are applied with, and
\* the slices of k adjectives and one noun of the Generator gen.
MaxAdjectives == 2
RECURSIVE wordTuples(_, _)
wordTuples(gen, k) ==
    IF k = 0 THEN {<<gen.nouns[n]>> : n \in 1..Len(gen.nouns)}
    ELSE {<<gen.adjectives[a]>> \o t : a \in 1..Len(gen.adjectives), t \in wordTuples(gen, k - 1)}

\* The widths and the round keys the Feistel functions are applied with: every
\* width up to MaxBits with every x below 2^bits, and the keys of a seed, keys
\* that are all 0 and keys that are all 1<<64 - 1.
MaxBits == 5
FeistelKeys ==
    RoundKeys \cup { <<<< >>, << >>, << >>, << >>>>,
                     <<MaxUint64, MaxUint64, MaxUint64, MaxUint64>> }

VARIABLES
    g,       \* the Generator
    last     \* the latest call on it: its arguments, what it returned, and for a
             \* decoding the locals of its parse and the call that issued the input
VARIABLE
    conc     \* goroutines that call the Generator at the same time: where each
             \* one is in its call, and what has happened to the cache
VARIABLE
    helper   \* the latest application of one of the unexported functions: its
             \* name, its arguments, what it returned, and when its argument is
             \* what the function before it returned (chained), the argument of
             \* that one
vars == <<g, last, conc, helper>>

\* The state after Load(seed) with the word files file, for a seed that gives
\* the order shuffle and the round keys keys.
Loading(file, shuffle, keys) ==
    LET returned(r) ==
            /\ g = r.gen
            /\ last = [op |-> "Load", index |-> << >>, adjectivesCount |-> 0,
                       input |-> << >>, id |-> << >>, val |-> << >>, err |-> r.err,
                       panic |-> FALSE, parsed |-> NoParse, issuer |-> NoIssuer]
        counted(adjectivesLen, nounsLen) ==
            returned(Load(file.adjectives, file.nouns, shuffleOrder(shuffle, adjectivesLen),
                          shuffleOrder(shuffle, nounsLen), keys, defaultXxteaKey))
    IN  /\ counted(Len(unique(filterWords(file.adjectives.lines))),
                   Len(unique(filterWords(file.nouns.lines))))
        /\ conc = [started |-> FALSE, init |-> g, crashed |-> FALSE, writes |-> 0,
                   threads |-> [t \in Goroutines |-> Idle]]
        /\ helper = [fn |-> "", args |-> << >>, out |-> << >>,
                     chained |-> FALSE, from |-> << >>]

Init ==
    \E file \in WordFiles, shuffle \in {"keep", "reverse"}, keys \in RoundKeys :
        Loading(file, shuffle, keys)

\* A method is called on the Generator Load returned: none is, after a Load
\* that returned an error and no Generator.
\* g.MaxCombinations(adjectivesCount)
CallMaxCombinations ==
    /\ last.err \notin {ADJECTIVES_FILE_NOT_FOUND, NOUNS_FILE_NOT_FOUND}
    /\ ~last.panic
    /\ UNCHANGED <<conc, helper>>
    /\ \E k \in AdjCounts :
        LET returned(r) ==
                /\ g' = r.gen
                /\ last' = [op |-> "MaxCombinations", index |-> << >>, adjectivesCount |-> k,
                            input |-> << >>, id |-> << >>, val |-> r.val, err |-> "",
                            panic |-> r.panic, parsed |-> NoParse, issuer |-> NoIssuer]
        IN  returned(MaxCombinations(g, k))

\* g.Encode(index, adjectivesCount)
CallEncode ==
    /\ last.err \notin {ADJECTIVES_FILE_NOT_FOUND, NOUNS_FILE_NOT_FOUND}
    /\ ~last.panic
    /\ UNCHANGED <<conc, helper>>
    /\ \E call \in EncodeCalls :
        LET returned(r) ==
                /\ g' = r.gen
                /\ last' = [op |-> "Encode", index |-> call[1], adjectivesCount |-> call[2],
                            input |-> << >>, id |-> r.id, val |-> << >>, err |-> r.err,
                            panic |-> r.panic, parsed |-> NoParse, issuer |-> NoIssuer]
        IN  returned(Encode(g, call[1], call[2]))

\* g.EncodeScrambled(i, adjectivesCount)
CallEncodeScrambled ==
    /\ last.err \notin {ADJECTIVES_FILE_NOT_FOUND, NOUNS_FILE_NOT_FOUND}
    /\ ~last.panic
    /\ UNCHANGED <<conc, helper>>
    /\ \E call \in ScrambledCalls :
        LET returned(r) ==
                /\ g' = r.gen
                /\ last' = [op |-> "EncodeScrambled", index |-> call[1],
                            adjectivesCount |-> call[2],
                            input |-> << >>, id |-> r.id, val |-> << >>, err |-> r.err,
                            panic |-> r.panic, parsed |-> NoParse, issuer |-> NoIssuer]
        IN  returned(EncodeScrambled(g, call[1], call[2]))

\* The ID the latest call issued, if it was a call of op and issued one, with
\* the call.
Issued(op) ==
    IF last.op = op /\ last.err = ""
    THEN {[input |-> last.id,
           issuer |-> [op |-> last.op, index |-> last.index,
                       adjectivesCount |-> last.adjectivesCount]]}
    ELSE {}

\* g.Decode(input), of a hand-written string or of the ID just issued
CallDecode ==
    /\ last.err \notin {ADJECTIVES_FILE_NOT_FOUND, NOUNS_FILE_NOT_FOUND}
    /\ ~last.panic
    /\ UNCHANGED <<conc, helper>>
    /\ \E given \in Issued("Encode")
                      \cup {[input |-> str, issuer |-> NoIssuer] : str \in HandWritten} :
        LET returned(r) ==
                /\ g' = r.gen
                /\ last' = [op |-> "Decode", index |-> << >>, adjectivesCount |-> 0,
                            input |-> given.input, id |-> << >>, val |-> r.val, err |-> r.err,
                            panic |-> r.panic, parsed |-> r.parsed, issuer |-> given.issuer]
        IN  returned(Decode(g, given.input))

\* g.DecodeFromScrambled(humanID); the model follows its search loop through at
\* most MaxSearch numbers.
CallDecodeFromScrambled ==
    /\ last.err \notin {ADJECTIVES_FILE_NOT_FOUND, NOUNS_FILE_NOT_FOUND}
    /\ ~last.panic
    /\ UNCHANGED <<conc, helper>>
    /\ \E given \in Issued("EncodeScrambled")
                      \cup {[input |-> str, issuer |-> NoIssuer] : str \in HandWrittenScrambled} :
        LET returned(r) ==
                /\ r.searched
                /\ g' = r.gen
                /\ last' = [op |-> "DecodeFromScrambled", index |-> << >>, adjectivesCount |-> 0,
                            input |-> given.input, id |-> << >>, val |-> r.val, err |-> r.err,
                            panic |-> r.panic, parsed |-> r.parsed, issuer |-> given.issuer]
        IN  returned(DecodeFromScrambled(g, given.input))

Next ==
    \/ CallMaxCombinations
    \/ CallEncode
    \/ CallEncodeScrambled
    \/ CallDecode
    \/ CallDecodeFromScrambled

Spec == Init /\ [][Next]_vars

\* ------------------------------------------------------------------------
\* Goroutines calling Encode, Decode and EncodeScrambled at the same time
\* ------------------------------------------------------------------------
\* Before any goroutine starts, the caller fills the cache for a count.  A
\* panic of that call (an empty list) ends the program: no goroutine starts.
Precompute ==
    /\ last.err \notin {ADJECTIVES_FILE_NOT_FOUND, NOUNS_FILE_NOT_FOUND}
    /\ ~conc.started /\ ~conc.crashed
    /\ \E k \in PrecomputeCounts :
        LET returned(r) == /\ g' = r.gen
                           /\ conc' = [conc EXCEPT !.init = r.gen, !.crashed = r.panic]
        IN  returned(MaxCombinations(g, k))
    /\ UNCHANGED <<last, helper>>

\* A goroutine enters a call.
Begin ==
    /\ last.err \notin {ADJECTIVES_FILE_NOT_FOUND, NOUNS_FILE_NOT_FOUND}
    /\ ~conc.crashed
    /\ \E t \in Goroutines, c \in ConcurrentCalls :
        /\ conc.threads[t].pc = "idle"
        /\ conc' = [conc EXCEPT !.started = TRUE,
                                !.threads[t] = [Idle EXCEPT !.pc = "called", !.call = c]]
    /\ UNCHANGED <<g, last, helper>>

\* whether another goroutine than t is in the map assignment
Assigning(t) == \E u \in Goroutines \ {t} : conc.threads[u].pc = "storing"

\* The goroutine runs its call up to the return, or, when MaxCombinations
\* computed a value the map did not hold, up to the map assignment.  The rest
\* of the call reads only fields that nothing writes after Load.  A division
\* by zero in the call ends the program.
Lookup ==
    /\ ~conc.crashed
    /\ \E t \in Goroutines :
        LET returned(r, put) ==
                /\ r.used # {} => ~Assigning(t)
                /\ conc' = [conc EXCEPT !.crashed = r.res.panic,
                                        !.threads[t] =
                               [pc |-> IF DOMAIN put = {} THEN "done" ELSE "store",
                                call |-> @.call, res |-> r.res, put |-> put]]
            run(r) == returned(r, stores(g, r))
        IN  /\ conc.threads[t].pc = "called"
            /\ run(invoke(g, conc.threads[t].call))
    /\ UNCHANGED <<g, last, helper>>

\* The goroutine reads the map while another assigns to it: a data race.  The
\* runtime may end the program with "concurrent map read and map write", or
\* the read may see the map before or after the assignment.
LookupRace ==
    /\ ~conc.crashed
    /\ \E t \in Goroutines, crash \in BOOLEAN :
        LET returned(r, put) ==
                /\ r.used # {} /\ Assigning(t)
                /\ conc' = IF crash THEN [conc EXCEPT !.crashed = TRUE]
                           ELSE [conc EXCEPT !.crashed = r.res.panic,
                                             !.threads[t] =
                                    [pc |-> IF DOMAIN put = {} THEN "done" ELSE "store",
                                     call |-> @.call, res |-> r.res, put |-> put]]
            run(r) == returned(r, stores(g, r))
        IN  /\ conc.threads[t].pc = "called"
            /\ run(invoke(g, conc.threads[t].call))
    /\ UNCHANGED <<g, last, helper>>

\* The goroutine starts g.maxCombinations[adjectivesCount] = combos.
StoreBegin ==
    /\ ~conc.crashed
    /\ \E t \in Goroutines :
        /\ conc.threads[t].pc = "store"
        /\ ~Assigning(t)
        /\ conc' = [conc EXCEPT !.threads[t].pc = "storing"]
    /\ UNCHANGED <<g, last, helper>>

\* It starts the assignment while another goroutine assigns: the runtime may
\* end the program with "concurrent map writes".
StoreRace ==
    /\ ~conc.crashed
    /\ \E t \in Goroutines, crash \in BOOLEAN :
        /\ conc.threads[t].pc = "store"
        /\ Assigning(t)
        /\ conc' = IF crash THEN [conc EXCEPT !.crashed = TRUE]
                   ELSE [conc EXCEPT !.threads[t].pc = "storing"]
    /\ UNCHANGED <<g, last, helper>>

\* The assignment is done, and the call returns.
StoreEnd ==
    /\ ~conc.crashed
    /\ \E t \in Goroutines :
        LET assigned(put) ==
                /\ g' = [g EXCEPT !.maxCombinations =
                            [n \in DOMAIN @ \cup DOMAIN put |->
                                IF n \in DOMAIN put THEN put[n] ELSE @[n]]]
                /\ conc' = [conc EXCEPT !.threads[t].pc = "done", !.writes = @ + 1]
        IN  /\ conc.threads[t].pc = "storing"
            /\ assigned(conc.threads[t].put)
    /\ UNCHANGED <<last, helper>>

NextConcurrent ==
    \/ Precompute
    \/ Begin
    \/ Lookup
    \/ LookupRace
    \/ StoreBegin
    \/ StoreRace
    \/ StoreEnd

SpecConcurrent == Init /\ [][NextConcurrent]_vars

\* ------------------------------------------------------------------------
\* DecodeFromScrambled, one iteration of its search loop at a time
\* ------------------------------------------------------------------------
\* The word files of the Generators whose loop is followed: short lists, so
\* that the loop of a call that finds nothing is no longer than 200 iterations.
SearchFiles ==
    { [adjectives |-> [err |-> FALSE, lines |-> <<wordA>>],
       nouns      |-> [err |-> FALSE, lines |-> <<wordX>>]],
      [adjectives |-> [err |-> FALSE, lines |-> <<wordA, wordB>>],
       nouns      |-> [err |-> FALSE, lines |-> <<wordX>>]] }
InitSearch ==
    \E file \in SearchFiles, shuffle \in {"keep", "reverse"}, keys \in RoundKeys :
        Loading(file, shuffle, keys)

\* The IDs that are searched for: malformed ones, one out of range, and those
\* of the first numbers and of the last one of the domain of one adjective.
SearchInputs ==
    HandWrittenScrambled \cup {Join(<<wordA, wordX, <<"1", "0", "0">>>>)}
        \cup (IF g.baseA >= 1 /\ g.baseN >= 1
              THEN {render(g, Big(s), Big(g.baseA * g.baseN), 1) :
                        s \in 0..5 \cup {g.baseA * g.baseN * SuffixSpace - 1}}
              ELSE {})
Searching == helper.fn = "DecodeFromScrambled" /\ ~helper.out.done

\* DecodeFromScrambled(humanID) up to the loop: the parse, and i := 0.  A call
\* is entered when the one before it has ended.
StartSearch ==
    /\ ~Searching
    /\ \E humanID \in SearchInputs :
        LET parsed(p) ==
                /\ g' = p.gen
                /\ helper' = [fn |-> "DecodeFromScrambled", args |-> <<humanID>>,
                              out |-> [done |-> p.err # "", i |-> << >>, val |-> << >>,
                                       err |-> p.err, panic |-> p.panic,
                                       scrambled |-> p.scrambled, maxIndex |-> p.maxIndex],
                              chained |-> FALSE, from |-> << >>]
        IN  parsed(parse(g, humanID))
    /\ UNCHANGED <<last, conc>>

\* One iteration: i < maxIndex, and either i matches and is returned, or i++.
SearchStep ==
    /\ Searching
    /\ BigLess(helper.out.i, helper.out.maxIndex)
    /\ helper' = IF matches(g, helper.out.i, helper.out.maxIndex, helper.out.scrambled)
                 THEN [helper EXCEPT !.out.done = TRUE, !.out.val = helper.out.i]
                 ELSE [helper EXCEPT !.out.i = Add64(@, <<1>>)]
    /\ UNCHANGED <<g, last, conc>>

\* The loop ends with i = maxIndex: "could not decode scrambled value".
SearchEnd ==
    /\ Searching
    /\ ~BigLess(helper.out.i, helper.out.maxIndex)
    /\ helper' = [helper EXCEPT !.out.done = TRUE, !.out.err = ErrNotFound]
    /\ UNCHANGED <<g, last, conc>>

NextSearch ==
    \/ StartSearch
    \/ SearchStep
    \/ SearchEnd

\* A call that is in its loop goes on: nothing but the loop runs in it.
SpecSearch ==
    InitSearch /\ [][NextSearch]_vars /\ WF_vars(SearchStep) /\ WF_vars(SearchEnd)

\* ------------------------------------------------------------------------
\* The unexported functions, applied on their own
\* ------------------------------------------------------------------------
\* feistelPermute(x, keys, bits)
ApplyFeistelPermute ==
    /\ \E bits \in 1..MaxBits, keys \in FeistelKeys :
        \E x \in 0..(2^bits - 1) :
            LET returned(out) ==
                    helper' = [fn |-> "feistelPermute", args |-> <<Big(x), keys, bits>>,
                               out |-> out, chained |-> FALSE, from |-> << >>]
            IN  returned(feistelPermute(Big(x), keys, bits))
    /\ UNCHANGED <<g, last, conc>>

\* feistelUnpermute(y, keys, bits) of the y that feistelPermute just returned
\* for the same keys and bits
ApplyFeistelUnpermute ==
    /\ helper.fn = "feistelPermute"
    /\ LET returned(out) ==
               helper' = [fn |-> "feistelUnpermute",
                          args |-> <<helper.out, helper.args[2], helper.args[3]>>,
                          out |-> out, chained |-> TRUE, from |-> helper.args[1]]
       IN  returned(feistelUnpermute(helper.out, helper.args[2], helper.args[3]))
    /\ UNCHANGED <<g, last, conc>>

\* bitsNeeded(val), of a small val or of maxIndex - 1 for a maxIndex 1<<n
ApplyBitsNeeded ==
    /\ \E val \in {Big(v) : v \in 1..(2^MaxBits)} \cup {lowBits(n) : n \in 1..(4 * LimbBits)} :
        helper' = [fn |-> "bitsNeeded", args |-> <<val>>, out |-> bitsNeeded(val),
                   chained |-> FALSE, from |-> << >>]
    /\ UNCHANGED <<g, last, conc>>

NextFeistel ==
    \/ ApplyFeistelPermute
    \/ ApplyFeistelUnpermute
    \/ ApplyBitsNeeded

\* The word lists play no part in these functions: one Generator is enough.
InitFeistel ==
    /\ Init
    /\ g.baseA >= 1 /\ g.adjectives[1] = quick

SpecFeistel == InitFeistel /\ [][NextFeistel]_vars

\* indexToCombo(idx, ...) with the lists of g, of an index below
\* baseA^adjectivesCount * baseN or of the index comboToIndex just returned
ApplyIndexToCombo ==
    /\ \E given \in {[idx |-> Big(c), adjectivesCount |-> k, chained |-> FALSE, from |-> << >>] :
                        c \in 0..(g.baseA^MaxAdjectives * g.baseN - 1), k \in 1..MaxAdjectives}
                    \cup (IF helper.fn = "comboToIndex" /\ helper.out.err = ""
                          THEN {[idx |-> helper.out.idx, adjectivesCount |-> helper.args[2],
                                 chained |-> TRUE, from |-> helper.args[1]]}
                          ELSE {}) :
        LET returned(out) ==
                helper' = [fn |-> "indexToCombo", args |-> <<given.idx, given.adjectivesCount>>,
                           out |-> out, chained |-> given.chained, from |-> given.from]
        IN  /\ BigLess(given.idx, Big(g.baseA^given.adjectivesCount * g.baseN))
            /\ returned(indexToCombo(given.idx, g.baseA, g.baseN, given.adjectivesCount,
                                     g.adjectives, g.nouns))
    /\ UNCHANGED <<g, last, conc>>

\* comboToIndex(pieces, ...) with the maps of g, of adjectives of g and a noun
\* of g or of the pieces indexToCombo just returned
ApplyComboToIndex ==
    /\ \E given \in {[pieces |-> t, chained |-> FALSE, from |-> << >>] :
                        t \in UNION {wordTuples(g, k) : k \in 1..MaxAdjectives}}
                    \cup (IF helper.fn = "indexToCombo"
                          THEN {[pieces |-> helper.out, chained |-> TRUE,
                                 from |-> helper.args[1]]}
                          ELSE {}) :
        LET returned(out) ==
                helper' = [fn |-> "comboToIndex",
                           args |-> <<given.pieces, Len(given.pieces) - 1>>,
                           out |-> out, chained |-> given.chained, from |-> given.from]
        IN  returned(comboToIndex(given.pieces, g.baseA, g.baseN, Len(given.pieces) - 1,
                                  g.adjIndexMap, g.nounIndexMap))
    /\ UNCHANGED <<g, last, conc>>

NextCodec ==
    \/ ApplyIndexToCombo
    \/ ApplyComboToIndex

\* These functions are applied with the lists of a Generator whose lists are
\* not empty, in the order of the files.
InitCodec ==
    /\ Init
    /\ g.baseA >= 1 /\ g.baseN >= 1
    /\ g.adjectives[1] \in {quick, wordA}

SpecCodec == InitCodec /\ [][NextCodec]_vars

\* ------------------------------------------------------------------------
\* Properties
\* ------------------------------------------------------------------------
Loaded     == g.baseA >= 1 /\ g.baseN >= 1
Adjectives == {g.adjectives[i] : i \in 1..Len(g.adjectives)}
Nouns      == {g.nouns[i] : i \in 1..Len(g.nouns)}
EncodedOK  == last.op = "Encode" /\ last.err = ""
IssuedOK   == last.op \in {"Encode", "EncodeScrambled"} /\ last.err = ""
\* baseA^k * baseN as an integer of any size, or 0 where the claims want 0
Product(k) == BigMul(BigPow(Big(g.baseA), k), Big(g.baseN))
Combinations(k) ==
    IF k >= 1 /\ BigLeq(Product(k), MaxUint64) THEN Product(k) ELSE << >>
\* whether the 64-bit product MaxCombinations(k) * 100 is a power of two
FeistelMode(k) == isPowerOfTwo(Mul64(Combinations(k), Big(SuffixSpace)))
\* the tokens of the input of the latest decoding
Tokens    == Split(last.input)
LastToken == Tokens[Len(Tokens)]
Parsing   ==
    /\ Len(Tokens) >= 2
    /\ \/ last.op = "DecodeFromScrambled"
       \/ last.op = "Decode" /\ Loaded

\* C1: Decode of an ID that Encode issued for the index i succeeds and
\* returns i.
RoundTrip ==
    (last.op = "Decode" /\ last.issuer.op = "Encode")
        => (last.err = "" /\ last.val = last.issuer.index)

\* C2: two calls of Encode with the same adjective count and different
\* accepted indices never return the same string.
EncodeInjective ==
    [][(/\ EncodedOK
        /\ last'.op = "Encode" /\ last'.err = ""
        /\ last'.adjectivesCount = last.adjectivesCount
        /\ last'.index # last.index)
           => last'.id # last.id]_vars

\* C3: DecodeFromScrambled of an ID that EncodeScrambled issued for the index
\* i succeeds and returns i.
ScrambledRoundTrip ==
    (last.op = "DecodeFromScrambled" /\ last.issuer.op = "EncodeScrambled")
        => (last.err = "" /\ last.val = last.issuer.index)

\* C4: DecodeFromScrambled of an ID that EncodeScrambled issued for the index
\* i succeeds and returns the smallest number below maxIndex whose transform,
\* reduced modulo maxIndex, is that of i; it is at most i.
Reduced(i, maxIndex) == BigMod(xxteaEncrypt64(i, g.xxteaKey), maxIndex)
ScrambledWeakRoundTrip ==
    (last.op = "DecodeFromScrambled" /\ last.issuer.op = "EncodeScrambled")
        => LET maxIndex == Mul64(Combinations(last.issuer.adjectivesCount), Big(SuffixSpace))
               same(i)  == Reduced(Big(i), maxIndex) = Reduced(last.issuer.index, maxIndex)
           IN  /\ last.err = ""
               /\ BigLeq(last.val, last.issuer.index)
               /\ same(Small(last.val))
               /\ \A i \in 0..(Small(last.val) - 1) : ~same(i)

\* C5: with both lists non-empty, MaxCombinations(k) returns baseA^k * baseN
\* when k >= 1 and that product is at most 2^64 - 1, and 0 otherwise; a cached
\* value is that product too.
MaxCombinationsExact ==
    Loaded =>
        /\ last.op = "MaxCombinations" => last.val = Combinations(last.adjectivesCount)
        /\ \A k \in DOMAIN g.maxCombinations :
               k >= 1 /\ g.maxCombinations[k] = Product(k)
\* MaxCombinations has returned 0 for a product above 2^64 - 1 that no factor
\* of the loop exceeds, and whose low 64 bits are not 0.
MaxCombinationsOverflowed ==
    /\ Loaded
    /\ last.op = "MaxCombinations" /\ last.val = << >>
    /\ BigLeq(BigPow(Big(g.baseA), last.adjectivesCount), MaxUint64)
    /\ Wrap(Product(last.adjectivesCount), 4) # << >>

\* C6: Encode(index, k) returns a string exactly when k >= 1, both lists are
\* non-empty, combinations(k) is not 0 and index is below combinations(k) * 100
\* as an integer of any size; otherwise it returns an error and no string.
EncodeDomain ==
    last.op = "Encode" =>
        LET k        == last.adjectivesCount
            inDomain == /\ k >= 1
                        /\ Loaded
                        /\ Combinations(k) # << >>
                        /\ BigLess(last.index, BigMul(Combinations(k), Big(SuffixSpace)))
        IN  /\ inDomain <=> last.err = ""
            /\ last.err # "" <=> last.id = << >>

\* C7: a string Encode or EncodeScrambled returns for the adjective count k is
\* k adjectives, one noun, and then nothing or the decimal literal of a number
\* in 1..99.
WireFormat ==
    IssuedOK =>
        LET tokens == Split(last.id)
            k      == last.adjectivesCount
        IN  /\ Len(tokens) \in {k + 1, k + 2}
            /\ \A t \in 1..k : tokens[t] \in Adjectives
            /\ tokens[k + 1] \in Nouns
            /\ Len(tokens) = k + 2 => \E n \in 1..(SuffixSpace - 1) : tokens[k + 2] = Itoa(Big(n))
\* EncodeScrambled has returned a string that ends with a suffix.
ScrambledSuffixIssued ==
    /\ last.op = "EncodeScrambled" /\ last.err = ""
    /\ Len(Split(last.id)) = last.adjectivesCount + 2

\* C8: where the index is not permuted, the words of Encode(i, k) are those of
\* i mod MaxCombinations(k), the suffix is there exactly when
\* i >= MaxCombinations(k), and it is the decimal literal of
\* i div MaxCombinations(k); and the examples with adjectives [quick, slow] and
\* nouns [fox, dog, cat].
WordAt(comboIdx, k, t) ==
    IF t = k + 1
    THEN g.nouns[Small(BigMod(comboIdx, Big(g.baseN))) + 1]
    ELSE g.adjectives[Small(BigMod(BigDiv(BigDiv(comboIdx, Big(g.baseN)),
                                          BigPow(Big(g.baseA), k - t)),
                                   Big(g.baseA))) + 1]
QuickFox == g.adjectives = <<quick, slow>> /\ g.nouns = <<fox, dog, cat>>
SuffixDecomposition ==
    /\ (EncodedOK /\ ~FeistelMode(last.adjectivesCount)) =>
           LET k      == last.adjectivesCount
               combos == Combinations(k)
               tokens == Split(last.id)
           IN  /\ Len(tokens) >= k + 1
               /\ \A t \in 1..(k + 1) : tokens[t] = WordAt(BigMod(last.index, combos), k, t)
               /\ Len(tokens) = k + 2 <=> BigLeq(combos, last.index)
               /\ Len(tokens) = k + 2 => tokens[k + 2] = Itoa(BigDiv(last.index, combos))
    /\ (QuickFox /\ last.op = "Encode" /\ last.adjectivesCount = 1) =>
           /\ last.index = << >> => last.id = Join(<<quick, fox>>)
           /\ last.index = <<6>> => last.id = Join(<<quick, fox, <<"1">>>>)
    /\ (QuickFox /\ last.op = "Decode") =>
           /\ last.input = Join(<<quick, fox>>) => (last.err = "" /\ last.val = << >>)
           /\ last.input = Join(<<quick, fox, <<"1">>>>) => (last.err = "" /\ last.val = <<6>>)
\* Encode(6, 1) has returned "quick-fox-1".
QuickFoxOneIssued ==
    /\ QuickFox
    /\ EncodedOK /\ last.index = <<6>> /\ last.adjectivesCount = 1
    /\ last.id = Join(<<quick, fox, <<"1">>>>)

\* C9: in Decode and DecodeFromScrambled a last token that is a noun is taken
\* as the noun, with suffix 0 and every token before it an adjective, even if
\* it is a number too; a last token is taken as the suffix exactly when it is
\* not a noun and is a non-negative integer.
IsNumber(token) == Atoi(token).ok /\ (~Atoi(token).neg \/ Atoi(token).mag = << >>)
NounPrecedence ==
    Parsing =>
        /\ last.parsed.nounIsValid <=> LastToken \in Nouns
        /\ LastToken \in Nouns =>
               /\ last.parsed.suffix = << >>
               /\ last.parsed.adjectivesCount = Len(Tokens) - 1
               /\ (last.op = "Decode" /\ last.err = ""
                       /\ ~FeistelMode(last.parsed.adjectivesCount)) =>
                      last.val = comboToIndex(Tokens, g.baseA, g.baseN, Len(Tokens) - 1,
                                              g.adjIndexMap, g.nounIndexMap).idx
        /\ last.parsed.adjectivesCount = Len(Tokens) - 2
               <=> (LastToken \notin Nouns /\ IsNumber(LastToken))
        /\ last.parsed.adjectivesCount \in {Len(Tokens) - 1, Len(Tokens) - 2}
\* A decoding has taken a last token that is a noun and a number as the noun.
NumericNounDecoded ==
    /\ Parsing
    /\ LastToken \in Nouns /\ IsNumber(LastToken)
    /\ last.err = "" /\ last.parsed.nounIsValid

\* C10: Decode of an input whose words are all valid and whose suffix token is
\* a number of at least 100 returns the out-of-range error and no number.
SuffixRejected ==
    (/\ last.op = "Decode" /\ Parsing
     /\ Len(Tokens) >= 3
     /\ LastToken \notin Nouns /\ IsNumber(LastToken)
     /\ BigLeq(Big(SuffixSpace), Atoi(LastToken).mag)
     /\ \A t \in 1..(Len(Tokens) - 2) : Tokens[t] \in Adjectives
     /\ Tokens[Len(Tokens) - 1] \in Nouns)
        => (last.err = ErrDecodedRange /\ last.val = << >>)

\* C11: Decode returns a number only for an input whose words all resolve.
\* As claimed: when fewer than two tokens remain once a recognised suffix is
\* taken off, the error is the one for too few tokens; when an adjective or
\* the noun is not in its list, the error is the one of the failed lookup; and
\* no number is returned.
Words ==
    IF Len(Tokens) >= 2 /\ LastToken \notin Nouns /\ IsNumber(LastToken)
    THEN SubSeq(Tokens, 1, Len(Tokens) - 1) ELSE Tokens
UnknownWord ==
    \/ \E t \in 1..(Len(Words) - 1) : Words[t] \notin Adjectives
    \/ Words[Len(Words)] \notin Nouns
LookupErrors == {"adjective not found", "noun not found"}
DecodeWellFormedOnly ==
    last.op = "Decode" =>
        /\ Len(Words) < 2 => (last.err = INVALID_PIECES_LENGTH /\ last.val = << >>)
        /\ (Len(Words) >= 2 /\ UnknownWord) => (last.err \in LookupErrors /\ last.val = << >>)
\* As amended: that holds of a generator whose lists have words, except that
\* an adjective count whose combinations are 0 is reported before any word is
\* looked up; a generator with an empty list answers every input with the
\* error for a generator that is not loaded.  No number is returned in any of
\* these cases.
DecodeRejectsUnresolved ==
    last.op = "Decode" =>
        IF ~Loaded THEN last.err = GENERATOR_NOT_LOADED /\ last.val = << >>
        ELSE /\ Len(Words) < 2 => (last.err = INVALID_PIECES_LENGTH /\ last.val = << >>)
             /\ (Len(Words) >= 2 /\ UnknownWord) =>
                    /\ last.val = << >>
                    /\ IF Combinations(Len(Words) - 1) = << >>
                       THEN last.err = ErrDecodeCombinations
                       ELSE last.err \in LookupErrors
\* Decode has refused an input of two or more words for its unknown noun.
UnknownNounRefused ==
    /\ last.op = "Decode" /\ Loaded
    /\ Len(Words) >= 2 /\ Words[Len(Words)] \notin Nouns
    /\ \A t \in 1..(Len(Words) - 1) : Words[t] \in Adjectives
    /\ last.err = "noun not found"

\* C12: where MaxCombinations(k) * 100, as the code computes it, is not a
\* power of two, Encode and Decode apply no permutation: they are the codec of
\* the suffix and the mixed-radix words with scrambled = index.  Encode returns
\* an ID exactly for an index below that product, the rendering of the index
\* itself; Decode returns the number its words and its suffix stand for, with
\* the errors of the parsing and of the range check alone; and both return the
\* same for every value of the round keys.  Where the product times 100 did
\* not wrap, Encode returns what the Encode of the version without a cipher
\* returns.
GateEncode(k) ==
    /\ last.err = "" <=>
           /\ k >= 1 /\ Loaded /\ Combinations(k) # << >>
           /\ BigLess(last.index, Mul64(Combinations(k), Big(SuffixSpace)))
    /\ last.err = "" => last.id = render(g, last.index, Combinations(k), k)
    /\ \A keys \in FeistelKeys :
           /\ Encode([g EXCEPT !.roundKeys = keys], last.index, k).id = last.id
           /\ Encode([g EXCEPT !.roundKeys = keys], last.index, k).err = last.err
    /\ (Combinations(k) = << >>
           \/ BigLeq(BigMul(Combinations(k), Big(SuffixSpace)), MaxUint64)) =>
           /\ last.id = plainEncode(g, last.index, k).id
           /\ last.err = "" <=> plainEncode(g, last.index, k).err = ""
GateDecode ==
    /\ last.err = parse(g, last.input).err
    /\ last.err = "" => last.val = parse(g, last.input).scrambled
    /\ \A keys \in FeistelKeys :
           /\ Decode([g EXCEPT !.roundKeys = keys], last.input).val = last.val
           /\ Decode([g EXCEPT !.roundKeys = keys], last.input).err = last.err
FeistelGate ==
    /\ (last.op = "Encode" /\ ~FeistelMode(last.adjectivesCount)) =>
           GateEncode(last.adjectivesCount)
    /\ (last.op = "Decode" /\ Parsing /\ ~FeistelMode(last.parsed.adjectivesCount)) =>
           GateDecode
\* Encode has written the index 2^63 with sixty adjectives on lists of two
\* adjectives and three nouns: the product 3 * 2^60 times 100 wrapped to
\* 12 * 2^60, which is not a power of two, and the ID is that of the index
\* itself, with the suffix 2.
GateOnWrappedProduct ==
    /\ last.op = "Encode" /\ last.err = "" /\ last.adjectivesCount = 60
    /\ g.baseA = 2 /\ g.baseN = 3 /\ last.index = Shl64(<<1>>, 63)
    /\ Mul64(Combinations(60), Big(SuffixSpace)) = Shl64(<<12>>, 60)
    /\ ~FeistelMode(60)
    /\ last.id = render(g, Shl64(<<1>>, 63), Shl64(<<3>>, 60), 60)
    /\ Len(Split(last.id)) = 62 /\ Split(last.id)[62] = <<"2">>

\* C13: when the cache held, before the goroutines started, an entry for every
\* adjective count their calls hand to MaxCombinations, then however the calls
\* of Encode, Decode and EncodeScrambled interleave, nothing is written to the
\* Generator, no call reaches the map assignment, the program is not ended by
\* a data race, and every call returns what it returns when run alone on the
\* Generator as it was.
Precomputed ==
    /\ conc.started
    /\ \A t \in Goroutines :
           conc.threads[t].pc # "idle" =>
               invoke(conc.init, conc.threads[t].call).used
                   \subseteq DOMAIN conc.init.maxCombinations
ConcurrentReadOnly ==
    Precomputed =>
        /\ g = conc.init
        /\ conc.writes = 0
        /\ ~conc.crashed
        /\ \A t \in Goroutines :
               /\ conc.threads[t].pc \notin {"store", "storing"}
               /\ conc.threads[t].pc = "done" =>
                      conc.threads[t].res = invoke(conc.init, conc.threads[t].call).res
\* With the cache filled for the counts they use, one goroutine has returned
\* from an Encode and the other from a Decode, each with a result and no error.
ConcurrentCallsReturned ==
    /\ Precomputed
    /\ conc.threads[1].pc = "done" /\ conc.threads[1].call.op = "Encode"
    /\ conc.threads[1].res.err = "" /\ conc.threads[1].res.id # << >>
    /\ conc.threads[2].pc = "done" /\ conc.threads[2].call.op = "Decode"
    /\ conc.threads[2].res.err = "" /\ conc.threads[2].res.val # << >>

\* C14: no call of MaxCombinations, Encode, Decode, EncodeScrambled or
\* DecodeFromScrambled aborts, on any Generator that Load returns, one with an
\* empty list included: each returns a value or an error, and MaxCombinations
\* returns 0 when a list is empty.
NeverAborts ==
    /\ ~last.panic
    /\ (last.op = "MaxCombinations" /\ ~Loaded) => last.val = << >>

\* C15: Load of word lists of which one is empty after the filtering returns
\* a configuration error and no Generator.
LoadRejectsEmptyList ==
    (last.op = "Load" /\ (Len(g.adjectives) = 0 \/ Len(g.nouns) = 0)) => last.err # ""

\* C16: for every width bits >= 1, every four round keys and every x below
\* 2^bits, feistelUnpermute(feistelPermute(x, keys, bits), keys, bits) = x.
FeistelInverse ==
    helper.fn = "feistelUnpermute" => helper.out = helper.from

\* C17: for every width bits >= 1, even or odd, and every round keys,
\* feistelPermute maps the numbers below 2^bits one-to-one onto themselves:
\* what it returns is below 2^bits, and it returns it for no other x.
FeistelBijection ==
    helper.fn = "feistelPermute" =>
        LET x    == helper.args[1]
            keys == helper.args[2]
            bits == helper.args[3]
        IN  /\ BigLess(helper.out, Big(2^bits))
            /\ \A other \in 0..(2^bits - 1) :
                   Big(other) # x => feistelPermute(Big(other), keys, bits) # helper.out

\* C18: with the lists of a Generator and k >= 1, indexToCombo of a c below
\* baseA^k * baseN returns k adjectives at positions a_1..a_k and a noun at
\* position n with c = (a_1*baseA^(k-1) + ... + a_k)*baseN + n; comboToIndex of
\* what indexToCombo returned for c returns c; and indexToCombo of what
\* comboToIndex returned for k adjectives and a noun returns those words.
RECURSIVE Horner(_, _)
Horner(pieces, i) ==
    IF i = 0 THEN 0
    ELSE Horner(pieces, i - 1) * g.baseA
             + (CHOOSE a \in 0..(g.baseA - 1) : g.adjectives[a + 1] = pieces[i])
MixedRadixBijection ==
    /\ helper.fn = "indexToCombo" =>
           LET k == helper.args[2]
           IN  /\ Len(helper.out) = k + 1
               /\ \A i \in 1..k : helper.out[i] \in Adjectives
               /\ helper.out[k + 1] \in Nouns
               /\ helper.args[1] =
                      Big(Horner(helper.out, k) * g.baseN
                              + (CHOOSE n \in 0..(g.baseN - 1) :
                                     g.nouns[n + 1] = helper.out[k + 1]))
               /\ helper.chained => helper.out = helper.from
    /\ helper.fn = "comboToIndex" =>
           /\ helper.out.err = ""
           /\ helper.chained => helper.out.idx = helper.from
\* comboToIndex has returned 13 for the pieces that indexToCombo returned for
\* 13 with two adjectives, on the lists of 4 adjectives and 2 nouns: the noun
\* at position 1 and the adjectives at positions 1 and 2.
CodecRoundTrip ==
    /\ helper.fn = "comboToIndex" /\ helper.chained
    /\ g.baseA = 4 /\ g.baseN = 2
    /\ helper.from = <<13>> /\ helper.out.idx = <<13>>
    /\ helper.args[1] = <<g.adjectives[2], g.adjectives[3], g.nouns[2]>>

\* C19: DecodeFromScrambled always terminates.  A call whose input parses
\* tries the candidates 0, 1, 2, ... in this order, at most maxIndex of them;
\* it returns a candidate only if transform(i) mod maxIndex is the parsed
\* number for it and for no smaller one; it returns the search-exhausted
\* error, and no number, only if no i below maxIndex has that; and every call
\* that is in its loop leaves it.
Reduces(i) ==
    BigMod(xxteaEncrypt64(Big(i), g.xxteaKey), helper.out.maxIndex) = helper.out.scrambled
SearchSafe ==
    (helper.fn = "DecodeFromScrambled" /\ ~helper.out.panic
         /\ parse(g, helper.args[1]).err = "") =>
        LET out == helper.out
            same(r) == out.val = r.val /\ out.err = r.err
        IN  /\ BigLeq(out.i, out.maxIndex)
            /\ (out.done /\ out.err = "") =>
                   /\ out.val = out.i /\ BigLess(out.i, out.maxIndex)
                   /\ Reduces(Small(out.i))
                   /\ \A j \in 0..(Small(out.i) - 1) : ~Reduces(j)
            /\ (out.done /\ out.err # "") =>
                   /\ out.err = ErrNotFound /\ out.val = << >>
                   /\ \A j \in 0..(Small(out.maxIndex) - 1) : ~Reduces(j)
            /\ out.done => same(DecodeFromScrambled(g, helper.args[1]))
SearchInOrder ==
    (Searching /\ helper'.fn = "DecodeFromScrambled" /\ ~helper'.out.done) =>
        helper'.out.i = Add64(helper.out.i, <<1>>)
SearchTerminates ==
    /\ []SearchSafe
    /\ [][SearchInOrder]_vars
    /\ Searching ~> (helper.fn = "DecodeFromScrambled" /\ helper.out.done)
\* A call has run through all the 100 candidates of the lists of one adjective
\* and one noun and returned the search-exhausted error.
SearchExhausted ==
    /\ helper.fn = "DecodeFromScrambled" /\ helper.out.done
    /\ helper.out.err = ErrNotFound /\ helper.out.val = << >>
    /\ helper.out.maxIndex = Big(100) /\ helper.out.i = Big(100)

\* C20: bitsNeeded(val) is the number of bits that represent val: val is below
\* 2^bitsNeeded(val) for every val >= 1, so that for maxIndex = 2^n the width
\* bitsNeeded(maxIndex - 1) is n.
BitsNeededCovers ==
    helper.fn = "bitsNeeded" =>
        /\ BigLess(helper.args[1], BigPow(<<2>>, helper.out))
        /\ \A n \in 1..(4 * LimbBits) : helper.args[1] = lowBits(n) => helper.out = n

\* C21: the memoization is not synchronized.  A goroutine is at the map
\* assignment of MaxCombinations only for a count k >= 1 that the map did not
\* hold when the goroutines started and whose product baseA^k * baseN fits 64
\* bits, and the value it assigns is that product; a call that has returned
\* after looking such a k up has left the map with an entry for k; and nothing
\* keeps two goroutines from being in the assignment for the same k at once.
MemoizationRace ==
    \A t \in Goroutines :
        LET th == conc.threads[t]
            known(r) ==
                /\ th.pc \in {"store", "storing"} =>
                       /\ DOMAIN th.put # {} /\ DOMAIN th.put \subseteq r.used
                       /\ \A k \in DOMAIN th.put :
                              /\ k >= 1 /\ k \notin DOMAIN conc.init.maxCombinations
                              /\ th.put[k] = Product(k) /\ Combinations(k) # << >>
                /\ (th.pc = "done" /\ ~th.res.panic) =>
                       \A k \in r.used :
                           Combinations(k) # << >> => k \in DOMAIN g.maxCombinations
        IN  th.pc # "idle" => known(invoke(conc.init, th.call))
\* Two goroutines, one in Encode and one in DecodeFromScrambled, both missed
\* the map for the count 1 and are both in the assignment of its entry.
WriteWriteReached ==
    /\ conc.threads[1].pc = "storing" /\ conc.threads[1].call.op = "Encode"
    /\ conc.threads[2].pc = "storing" /\ conc.threads[2].call.op = "DecodeFromScrambled"
    /\ DOMAIN conc.threads[1].put = {1} /\ DOMAIN conc.threads[2].put = {1}
    /\ 1 \notin DOMAIN g.maxCombinations

\* C22: over any sequence of operations, every entry k -> v of the cache has
\* k >= 1 and v = baseA^k * baseN with 0 < v <= 2^64 - 1, so that no overflow
\* result is stored; no operation changes or removes an entry, or modifies the
\* word lists, the reverse maps, the round keys or the cipher key; and
\* MaxCombinations(k) returns the same value whether or not k is cached.
CacheEntries ==
    /\ \A k \in DOMAIN g.maxCombinations :
           /\ k >= 1
           /\ g.maxCombinations[k] = Product(k)
           /\ g.maxCombinations[k] # << >> /\ BigLeq(g.maxCombinations[k], MaxUint64)
           /\ MaxCombinations([g EXCEPT !.maxCombinations = << >>], k).val
                  = MaxCombinations(g, k).val
    /\ (last.op = "MaxCombinations" /\ ~last.panic) =>
           last.val = MaxCombinations([g EXCEPT !.maxCombinations = << >>],
                                      last.adjectivesCount).val
CacheKept ==
    /\ \A k \in DOMAIN g.maxCombinations :
           k \in DOMAIN g'.maxCombinations /\ g'.maxCombinations[k] = g.maxCombinations[k]
    /\ [g' EXCEPT !.maxCombinations = << >>] = [g EXCEPT !.maxCombinations = << >>]
CacheInvariant ==
    /\ []CacheEntries
    /\ [][CacheKept]_vars
\* MaxCombinations(63) has returned 0 for an overflow and stored nothing: the
\* cache holds the entries of the counts 1 and 30 as before.
OverflowNotStored ==
    /\ last.op = "MaxCombinations" /\ last.adjectivesCount = 63 /\ last.val = << >>
    /\ Loaded /\ DOMAIN g.maxCombinations = {1, 30}

\* C23: for an adjective count k >= 1 whose product baseA^k * baseN * 100 is
\* at most 2^64 - 1, maxIndex is a multiple of 25 and not a power of two, and
\* Encode and Decode use the identity mapping: Encode writes the words and the
\* suffix of the index itself, Decode returns the number the words and the
\* suffix stand for.  A result that is not the identity mapping is returned
\* only where the 64-bit product of MaxCombinations(k) and 100 has wrapped to
\* a power of two.
Unwrapped(k) ==
    /\ k >= 1 /\ Loaded /\ Combinations(k) # << >>
    /\ BigLeq(BigMul(Product(k), Big(SuffixSpace)), MaxUint64)
IdentityMapped ==
    \/ /\ last.op = "Encode"
       /\ last.id = render(g, last.index, Combinations(last.adjectivesCount),
                           last.adjectivesCount)
    \/ /\ last.op = "Decode"
       /\ last.val = parse(g, last.input).scrambled
FeistelOnlyOnWrap ==
    /\ \A k \in AdjCounts :
           Unwrapped(k) =>
               /\ BigMod(Mul64(Combinations(k), Big(SuffixSpace)), Big(25)) = << >>
               /\ ~FeistelMode(k)
    /\ (last.op = "Encode" /\ last.err = "") =>
           /\ Unwrapped(last.adjectivesCount) => IdentityMapped
           /\ ~IdentityMapped =>
                  FeistelMode(last.adjectivesCount) /\ ~Unwrapped(last.adjectivesCount)
    /\ (last.op = "Decode" /\ last.err = "") =>
           /\ Unwrapped(last.parsed.adjectivesCount) => IdentityMapped
           /\ ~IdentityMapped =>
                  /\ FeistelMode(last.parsed.adjectivesCount)
                  /\ ~Unwrapped(last.parsed.adjectivesCount)
\* Encode has written an index above 2^31 with thirty adjectives on lists whose
\* product 2^30 * 3 * 100 fits 64 bits, by the identity mapping.
IdentityOnWideIndex ==
    /\ last.op = "Encode" /\ last.err = "" /\ last.adjectivesCount = 30
    /\ g.baseA = 2 /\ g.baseN = 3 /\ Unwrapped(30)
    /\ BigLess(Shl64(<<1>>, 31), last.index)
    /\ IdentityMapped

\* C24: Decode accepts only canonical IDs: whenever Decode returns a number v
\* for a string s, with k the adjective count it took from s, Encode(v, k)
\* returns s; a string with a suffix token 0, or with another spelling of a
\* suffix than the one Encode writes, is not decoded to the number of the
\* canonical string.
DecodeCanonical ==
    (last.op = "Decode" /\ last.err = "" /\ ~last.panic) =>
        /\ Encode(g, last.val, last.parsed.adjectivesCount).err = ""
        /\ Encode(g, last.val, last.parsed.adjectivesCount).id = last.input
====
